---------------------------- MODULE Spec2Model ----------------------------
(***************************************************************************)
(* Model of the rule engine of `why` (src/src/main.rs): the auto-fix gate, *)
(* the trigger compiler, the condition evaluator, the rule engine, the     *)
(* correlator, and the control flow of main that connects them.            *)
(*                                                                         *)
(* A Rust String is modelled as a sequence of one-character strings, so    *)
(* that prefix tests, trimming, splitting and character scans are computed *)
(* the way the code computes them.                                         *)
(***************************************************************************)
EXTENDS Integers, Sequences, FiniteSets, TLC

VARIABLES
    pc,         \* control location of the operation being run
    arg,        \* inputs of the operation under study
    ret,        \* value returned by the operation under study
    parsed_rules,   \* Vec<(Vec<Condition>, Rule)>
    findings,       \* Vec<Finding>
    rules_toml,     \* contents of the local file rules.toml
    remote,         \* what the remote rules endpoint answered
    cur_metrics,    \* the Metrics snapshot of the run of main
    LOG_CACHE,      \* OnceLock<Option<String>>
    logs_returned,  \* what the latest call of recent_logs returned
    history,        \* rows written to the history database
    events,         \* gate calls, prompts, answers and shell runs so far
    fix_idx,        \* position of the auto-fix loop in findings
    gpu_cache,      \* tui_mode: the last GPU detail detected
    gpu_detect,     \* tui_mode: whether the latest pass of the loop ran
                    \* detect_gpu_info, and the result of its latest run
    gpu_elapsed,    \* tui_mode: last_gpu_refresh.elapsed() in milliseconds
    terminal        \* the terminal: raw mode on, alternate screen entered

\* the state outside the operation under study
envVars ==
    <<rules_toml, remote, cur_metrics, LOG_CACHE, logs_returned, history, events,
      fix_idx, gpu_cache, gpu_detect, gpu_elapsed, terminal>>

vars == <<pc, arg, ret, parsed_rules, findings, envVars>>

(***************************************************************************)
(* Bounds of the explored input space.                                     *)
(***************************************************************************)
\* number of characters put around a base command in the gate's inputs
MaxExtra == 2

\* number of rules in a rule collection
MaxRules == 3

\* number of findings in a list handed to the correlator
MaxFindings == 3

\* number of rules in the local rules file and in a remote payload
MaxFileRules == 2

\* number of "&&"-separated segments of a trigger handed to the compiler
MaxSegments == 3

\* the largest number of Findings drawn for the list main ends up with
MaxFinal == 4

(***************************************************************************)
(* Option<T>                                                               *)
(***************************************************************************)
None == [some |-> FALSE]

Some(v) == [some |-> TRUE, val |-> v]

\* one entry of the log of calls to the outside: what was called, where,
\* on which string, and with what result
Event(ev, at, cmd, ok) == [ev |-> ev, at |-> at, cmd |-> cmd, ok |-> ok]

\* main is not running: no file read, nothing fetched, nothing written
EnvIdle ==
    /\ rules_toml = [state |-> "missing"]
    /\ remote = None
    /\ cur_metrics = None
    /\ LOG_CACHE = None
    /\ logs_returned = None
    /\ history = <<>>
    /\ events = <<>>
    /\ fix_idx = 0
    /\ gpu_cache = None
    /\ gpu_detect = [ran |-> FALSE, result |-> None]
    /\ gpu_elapsed = 0
    /\ terminal = [raw_mode |-> FALSE, alternate_screen |-> FALSE]

(***************************************************************************)
(* str helpers                                                             *)
(***************************************************************************)
\* all strings over alphabet A of length at most n
StrUpTo(A, n) == UNION {[1..k -> A] : k \in 0..n}

\* str::starts_with
starts_with(s, p) ==
    /\ Len(p) <= Len(s)
    /\ \A i \in 1..Len(p) : s[i] = p[i]

\* char::to_ascii_lowercase
UpperAZ ==
    <<"A", "B", "C", "D", "E", "F", "G", "H", "I", "J", "K", "L", "M",
      "N", "O", "P", "Q", "R", "S", "T", "U", "V", "W", "X", "Y", "Z">>

LowerAZ ==
    <<"a", "b", "c", "d", "e", "f", "g", "h", "i", "j", "k", "l", "m",
      "n", "o", "p", "q", "r", "s", "t", "u", "v", "w", "x", "y", "z">>

char_to_ascii_lowercase(c) ==
    IF \E i \in 1..26 : UpperAZ[i] = c
    THEN LowerAZ[CHOOSE i \in 1..26 : UpperAZ[i] = c]
    ELSE c

\* str::to_ascii_lowercase
to_ascii_lowercase(s) == [i \in 1..Len(s) |-> char_to_ascii_lowercase(s[i])]

\* str::eq_ignore_ascii_case
eq_ignore_ascii_case(a, b) ==
    /\ Len(a) = Len(b)
    /\ \A i \in 1..Len(a) :
          char_to_ascii_lowercase(a[i]) = char_to_ascii_lowercase(b[i])

\* str::contains with a string pattern
contains(s, needle) ==
    \E i \in 0..(Len(s) - Len(needle)) : SubSeq(s, i + 1, i + Len(needle)) = needle

(***************************************************************************)
(* f32.  A finite value x is the integer x * FSCALE (four decimal places); *)
(* NaN is a value of its own that every comparison answers with false.     *)
(***************************************************************************)
FSCALE == 10000

NaN == -2147483647

F(x) == x * FSCALE

\* variant: greater-or-equal instead of greater
FGe(a, b) == a # NaN /\ b # NaN /\ a >= b

\* the f32 operator >
FGt(a, b) == a # NaN /\ b # NaN /\ a > b

\* the f32 operator <
FLt(a, b) == a # NaN /\ b # NaN /\ a < b

RECURSIVE GCD(_, _)
GCD(a, b) == IF b = 0 THEN a ELSE GCD(b, a % b)

\* the f32 operator / for a non-negative dividend and a positive divisor
FDiv(a, b) ==
    IF a = NaN \/ b = NaN THEN NaN
    ELSE LET g == GCD(a, b)
             n == a \div g
             d == b \div g
         IN (n \div d) * FSCALE + ((n % d) * FSCALE) \div d

\* the f32 operator * with the literal 100.0
FMul100(a) == IF a = NaN THEN NaN ELSE a * 100

\* FP_PRECISION_THRESHOLD = 0.001
FP_PRECISION_THRESHOLD == 10

(***************************************************************************)
(* GpuDetails and Metrics                                                  *)
(***************************************************************************)
\* variant: an absent used memory counts as zero
memory_utilization_used_or_zero(gpu) ==
    IF /\ gpu.memory_total_mb.some
       /\ FGt(gpu.memory_total_mb.val, FP_PRECISION_THRESHOLD)
    THEN IF gpu.memory_used_mb.some
         THEN Some(FMul100(FDiv(gpu.memory_used_mb.val, gpu.memory_total_mb.val)))
         ELSE Some(0)
    ELSE None

\* GpuDetails::memory_utilization
memory_utilization(gpu) ==
    IF /\ gpu.memory_used_mb.some
       /\ gpu.memory_total_mb.some
       /\ FGt(gpu.memory_total_mb.val, FP_PRECISION_THRESHOLD)
    THEN Some(FMul100(FDiv(gpu.memory_used_mb.val, gpu.memory_total_mb.val)))
    ELSE None

\* variant: an absent value counts as a match
map_or_true(opt, test) == IF opt.some THEN test ELSE TRUE

\* Option::map(|x| test).unwrap_or(false), test being the closure's result on
\* the value held by opt
map_or_false(opt, test) == IF opt.some THEN test ELSE FALSE

\* Option::and_then(|gpu| gpu.field)
GpuField(metrics, field) ==
    IF metrics.gpu.some THEN metrics.gpu.val[field] ELSE None

\* Regex::is_match for a pattern of literal characters and "." (any character)
is_match(regex, text) ==
    \E i \in 0..(Len(text) - Len(regex.pattern)) :
        \A j \in 1..Len(regex.pattern) :
            regex.pattern[j] = "." \/ regex.pattern[j] = text[i + j]

(***************************************************************************)
(* ConditionEvaluator: condition_holds.  A Condition is a record with the  *)
(* variant's name in kind and its payload in v.                            *)
(***************************************************************************)
S_enabled == <<"e", "n", "a", "b", "l", "e", "d">>

S_disabled == <<"d", "i", "s", "a", "b", "l", "e", "d">>

condition_holds(condition, metrics, logs) ==
    LET value == condition.v
        gpu == metrics.gpu
        temperature == GpuField(metrics, "temperature")
        utilization == GpuField(metrics, "utilization")
        memory == IF gpu.some THEN memory_utilization(gpu.val) ELSE None
    IN
    CASE condition.kind = "CpuGreater" -> FGt(metrics.cpu_usage, value)
      [] condition.kind = "MemGreater" -> FGt(metrics.mem_usage, value)
      [] condition.kind = "TotalRamLess" -> metrics.total_ram_mb < value
      [] condition.kind = "ProcessContains" ->
            LET needle == to_ascii_lowercase(value) IN
            \E k \in 1..Len(metrics.process_names) :
                contains(metrics.process_names[k], needle)
      [] condition.kind = "ProcessCountGreater" -> metrics.process_count > value
      [] condition.kind = "LogContains" ->
            map_or_false(logs, is_match(value, logs.val))
      [] condition.kind = "DiskFullGreater" ->
            FGt(metrics.disk_full_percent, value)
      [] condition.kind = "SnapLoopsGreater" ->
            map_or_false(metrics.snap_loops, metrics.snap_loops.val > value)
      [] condition.kind = "FlatpakUnusedGreater" ->
            map_or_false(metrics.flatpak_unused, metrics.flatpak_unused.val > value)
      [] condition.kind = "BatteryDrainGreater" ->
            map_or_false(metrics.battery_drain_w,
                         FGt(metrics.battery_drain_w.val, value))
      [] condition.kind = "WifiChannelCountGreater" ->
            map_or_false(metrics.wifi_channel_count,
                         metrics.wifi_channel_count.val > value)
      [] condition.kind = "WifiSignalLess" ->
            map_or_false(metrics.wifi_signal_dbm,
                         FLt(metrics.wifi_signal_dbm.val, value))
      [] condition.kind = "FanSpeedGreater" ->
            map_or_false(metrics.fan_speed_rpm,
                         FGt(metrics.fan_speed_rpm.val, value))
      [] condition.kind = "TemperatureGreater" ->
            map_or_false(metrics.temperature_c,
                         FGt(metrics.temperature_c.val, value))
      [] condition.kind = "FilesystemEquals" ->
            map_or_false(metrics.filesystem, metrics.filesystem.val = value)
      [] condition.kind = "WaylandVsX11" ->
            map_or_false(metrics.wayland_vs_x11, metrics.wayland_vs_x11.val = value)
      [] condition.kind = "DockerDanglingGreater" ->
            map_or_false(metrics.docker_dangling,
                         metrics.docker_dangling.val > value)
      [] condition.kind = "PipewireLatencyGreater" ->
            map_or_false(metrics.pipewire_latency_ms,
                         FGt(metrics.pipewire_latency_ms.val, value))
      [] condition.kind = "FirefoxSoftRender" ->
            map_or_false(metrics.firefox_soft_render,
                         metrics.firefox_soft_render.val = value)
      [] condition.kind = "ZfsArcPercentGreater" ->
            map_or_false(metrics.zfs_arc_full_percent,
                         FGt(metrics.zfs_arc_full_percent.val, value))
      [] condition.kind = "LuksDevicesGreater" ->
            map_or_false(metrics.luks_device_count,
                         metrics.luks_device_count.val > value)
      [] condition.kind = "GpuVendorEquals" ->
            map_or_false(gpu, eq_ignore_ascii_case(gpu.val.vendor, value))
      [] condition.kind = "GpuTempGreater" ->
            map_or_false(temperature, FGt(temperature.val, value))
      [] condition.kind = "GpuTempLess" ->
            map_or_false(temperature, FLt(temperature.val, value))
      [] condition.kind = "GpuUtilGreater" ->
            map_or_false(utilization, FGt(utilization.val, value))
      [] condition.kind = "GpuMemUtilGreater" ->
            map_or_false(memory, FGt(memory.val, value))
      [] condition.kind = "PrimeOffloadEquals" ->
            LET actual == IF metrics.prime_offload_enabled
                             THEN S_enabled ELSE S_disabled
            IN eq_ignore_ascii_case(actual, value)
      [] condition.kind = "GamescopeRunning" -> metrics.gamescope_running = value
      [] condition.kind = "SteamRunning" -> metrics.steam_running = value
      [] condition.kind = "ProtonFailures" ->
            metrics.proton_failure_detected = value
      [] condition.kind = "VulkanLoaderMissing" ->
            metrics.vulkan_loader_missing = value

(***************************************************************************)
(* Snapshots, log texts and conditions the evaluator is run on             *)
(***************************************************************************)
S_btrfs == <<"b", "t", "r", "f", "s">>

S_ext4 == <<"e", "x", "t", "4">>

S_wayland == <<"w", "a", "y", "l", "a", "n", "d">>

S_x11 == <<"x", "1", "1">>

S_nvidia == <<"n", "v", "i", "d", "i", "a">>

S_NVIDIA == <<"N", "V", "I", "D", "I", "A">>

S_amd == <<"a", "m", "d">>

S_firefox == <<"f", "i", "r", "e", "f", "o", "x">>

S_Fire == <<"F", "i", "r", "e">>

S_Enabled == <<"E", "n", "a", "b", "l", "e", "d">>

S_oom_killer == <<"o", "o", "m", " ", "k", "i", "l", "l", "e", "r">>

S_oom == <<"o", "o", "m">>

S_o_m == <<"o", ".", "m">>

FloatValues == {F(-70), F(40), F(50), F(60), NaN}

FloatThresholds == {F(-60), F(40), F(50), F(60), NaN}

UnsignedValues == {0, 2, 5}

OptionOf(S) == {None} \cup {Some(x) : x \in S}

GpuValues ==
    {[vendor |-> vendor, model |-> None, driver |-> None,
      temperature |-> temperature, utilization |-> utilization,
      memory_total_mb |-> total, memory_used_mb |-> used,
      fan_speed_percent |-> None] :
        vendor \in {S_nvidia, S_amd},
        temperature \in OptionOf({F(40), F(60)}),
        utilization \in OptionOf({F(50)}),
        total \in OptionOf({0, 5, F(10240)}),
        used \in OptionOf({F(5120)})}

\* a snapshot on which nothing optional was observed
AbsentMetrics ==
    [cpu_usage |-> F(50), mem_usage |-> F(50), total_ram_mb |-> 2,
     disk_full_percent |-> F(50), filesystem |-> None, snap_loops |-> None,
     flatpak_unused |-> None, battery_drain_w |-> None,
     wifi_channel_count |-> None, wifi_signal_dbm |-> None,
     fan_speed_rpm |-> None, temperature_c |-> None, wayland_vs_x11 |-> None,
     docker_dangling |-> None, process_names |-> <<>>, process_count |-> 0,
     pipewire_latency_ms |-> None, firefox_soft_render |-> None,
     zfs_arc_full_percent |-> None, luks_device_count |-> None, gpu |-> None,
     prime_offload_enabled |-> FALSE, gamescope_running |-> FALSE,
     steam_running |-> FALSE, proton_failure_detected |-> FALSE,
     vulkan_loader_missing |-> FALSE]

\* a snapshot on which everything was observed
PresentMetrics ==
    [cpu_usage |-> F(50), mem_usage |-> F(50), total_ram_mb |-> 2,
     disk_full_percent |-> F(50), filesystem |-> Some(S_btrfs),
     snap_loops |-> Some(2), flatpak_unused |-> Some(2),
     battery_drain_w |-> Some(F(50)), wifi_channel_count |-> Some(2),
     wifi_signal_dbm |-> Some(F(-70)), fan_speed_rpm |-> Some(F(50)),
     temperature_c |-> Some(F(50)), wayland_vs_x11 |-> Some(S_wayland),
     docker_dangling |-> Some(2), process_names |-> <<S_firefox>>,
     process_count |-> 2, pipewire_latency_ms |-> Some(F(50)),
     firefox_soft_render |-> Some(TRUE), zfs_arc_full_percent |-> Some(F(50)),
     luks_device_count |-> Some(2),
     gpu |-> Some([vendor |-> S_nvidia, model |-> None, driver |-> None,
                   temperature |-> Some(F(60)), utilization |-> Some(F(50)),
                   memory_total_mb |-> Some(F(10240)),
                   memory_used_mb |-> Some(F(5120)),
                   fan_speed_percent |-> None]),
     prime_offload_enabled |-> TRUE, gamescope_running |-> TRUE,
     steam_running |-> TRUE, proton_failure_detected |-> TRUE,
     vulkan_loader_missing |-> TRUE]

LogValues == OptionOf({<<>>, S_oom_killer, S_firefox})

\* the values a field of Metrics takes in the explored snapshots
FieldValues(field) ==
    CASE field \in {"cpu_usage", "mem_usage", "disk_full_percent"} -> FloatValues
      [] field \in {"total_ram_mb", "process_count"} -> UnsignedValues
      [] field \in {"snap_loops", "flatpak_unused", "wifi_channel_count",
                    "docker_dangling", "luks_device_count"} ->
            OptionOf(UnsignedValues)
      [] field \in {"battery_drain_w", "wifi_signal_dbm", "fan_speed_rpm",
                    "temperature_c", "pipewire_latency_ms",
                    "zfs_arc_full_percent"} -> OptionOf(FloatValues)
      [] field = "filesystem" -> OptionOf({S_btrfs, S_ext4})
      [] field = "wayland_vs_x11" -> OptionOf({S_wayland, S_x11})
      [] field = "process_names" -> {<<>>, <<S_firefox>>, <<S_amd, S_firefox>>}
      [] field = "firefox_soft_render" -> OptionOf(BOOLEAN)
      [] field = "gpu" -> OptionOf(GpuValues)
      [] field \in {"prime_offload_enabled", "gamescope_running",
                    "steam_running", "proton_failure_detected",
                    "vulkan_loader_missing"} -> BOOLEAN

FloatKinds ==
    {"CpuGreater", "MemGreater", "DiskFullGreater", "BatteryDrainGreater",
     "WifiSignalLess", "FanSpeedGreater", "TemperatureGreater",
     "PipewireLatencyGreater", "ZfsArcPercentGreater", "GpuTempGreater",
     "GpuTempLess", "GpuUtilGreater", "GpuMemUtilGreater"}

UnsignedKinds ==
    {"TotalRamLess", "ProcessCountGreater", "SnapLoopsGreater",
     "FlatpakUnusedGreater", "WifiChannelCountGreater",
     "DockerDanglingGreater", "LuksDevicesGreater"}

StringKinds ==
    {"ProcessContains", "FilesystemEquals", "WaylandVsX11", "GpuVendorEquals",
     "PrimeOffloadEquals"}

BoolKinds ==
    {"FirefoxSoftRender", "GamescopeRunning", "SteamRunning", "ProtonFailures",
     "VulkanLoaderMissing"}

AllKinds ==
    FloatKinds \cup UnsignedKinds \cup StringKinds \cup BoolKinds
        \cup {"LogContains"}

\* the payloads a variant carries in the explored conditions
PayloadValues(kind) ==
    CASE kind \in FloatKinds -> FloatThresholds
      [] kind \in UnsignedKinds -> UnsignedValues
      [] kind \in StringKinds ->
            {<<>>, S_btrfs, S_wayland, S_nvidia, S_NVIDIA, S_Fire,
             S_enabled, S_Enabled, S_disabled}
      [] kind \in BoolKinds -> BOOLEAN
      [] kind = "LogContains" ->
            {[pattern |-> x] : x \in {<<>>, S_oom, S_o_m, S_Fire}}

InitHolds ==
    /\ pc = "holds"
    /\ \E kind \in AllKinds, base \in {AbsentMetrics, PresentMetrics} :
         \E v \in PayloadValues(kind) :
            LET condition == [kind |-> kind, v |-> v] IN
            \/ \E field \in DOMAIN base :
                 \E x \in FieldValues(field) :
                    arg = [condition |-> condition,
                           metrics |-> [base EXCEPT ![field] = x],
                           logs |-> IF base = AbsentMetrics
                                       THEN None ELSE Some(S_oom_killer)]
            \/ \E logs \in LogValues :
                 arg = [condition |-> condition, metrics |-> base, logs |-> logs]
    /\ ret = None
    /\ parsed_rules = <<>>
    /\ findings = <<>>
    /\ EnvIdle

CallHolds ==
    /\ pc = "holds"
    /\ ret' = Some(condition_holds(arg.condition, arg.metrics, arg.logs))
    /\ pc' = "holds_done"
    /\ UNCHANGED <<arg, parsed_rules, findings, envVars>>

NextHolds == CallHolds

SpecHolds == InitHolds /\ [][NextHolds]_vars

(***************************************************************************)
(* TriggerCompiler: payload parsers                                        *)
(***************************************************************************)
\* char::is_whitespace, on the ASCII characters
WhitespaceChars == {" ", "\t", "\n", "\r", "\f"}

RECURSIVE trim_start(_)
trim_start(s) ==
    IF Len(s) > 0 /\ s[1] \in WhitespaceChars THEN trim_start(Tail(s)) ELSE s

RECURSIVE trim_end(_)
trim_end(s) ==
    IF Len(s) > 0 /\ s[Len(s)] \in WhitespaceChars
    THEN trim_end(SubSeq(s, 1, Len(s) - 1))
    ELSE s

\* variant: no trimming
trim_nothing(s) == s

\* str::trim
trim(s) == trim_end(trim_start(s))

\* str::strip_prefix
strip_prefix(s, prefix) ==
    IF starts_with(s, prefix) THEN Some(SubSeq(s, Len(prefix) + 1, Len(s)))
    ELSE None

DigitChars == <<"0", "1", "2", "3", "4", "5", "6", "7", "8", "9">>

IsDigit(c) == \E i \in 1..10 : DigitChars[i] = c

DigitValue(c) == (CHOOSE i \in 1..10 : DigitChars[i] = c) - 1

AllDigits(s) == \A i \in 1..Len(s) : IsDigit(s[i])

\* the largest magnitude kept; larger numbers are held at this value, which
\* also stands for the f32 infinity
NUM_MAX == 2000000000

SatMul10(n) == IF n > NUM_MAX \div 10 THEN NUM_MAX ELSE n * 10

SatAdd(n, d) == IF n > NUM_MAX - d THEN NUM_MAX ELSE n + d

\* value of a string of decimal digits
RECURSIVE DecimalValue(_)
DecimalValue(s) ==
    IF s = <<>> THEN 0
    ELSE SatAdd(SatMul10(DecimalValue(SubSeq(s, 1, Len(s) - 1))),
                DigitValue(s[Len(s)]))

RECURSIVE ShiftLeft(_, _)
ShiftLeft(n, k) == IF k <= 0 \/ n = 0 THEN n ELSE ShiftLeft(SatMul10(n), k - 1)

RECURSIVE ShiftRight(_, _)
ShiftRight(n, k) == IF k <= 0 \/ n = 0 THEN n ELSE ShiftRight(n \div 10, k - 1)

\* position of the first character of s that is in set C, 0 when there is none
FirstIn(s, C) ==
    IF \E i \in 1..Len(s) : s[i] \in C
    THEN CHOOSE i \in 1..Len(s) : s[i] \in C /\ \A j \in 1..(i - 1) : s[j] \notin C
    ELSE 0

RECURSIVE StripLeadingZeros(_)
StripLeadingZeros(s) ==
    IF Len(s) > 1 /\ s[1] = "0" THEN StripLeadingZeros(Tail(s)) ELSE s

\* a <= b for two digit strings without leading zeros
RECURSIVE DigitsLeq(_, _)
DigitsLeq(a, b) ==
    IF Len(a) # Len(b) THEN Len(a) < Len(b)
    ELSE IF a = <<>> THEN TRUE
    ELSE IF a[1] # b[1] THEN DigitValue(a[1]) < DigitValue(b[1])
    ELSE DigitsLeq(Tail(a), Tail(b))

U32_MAX == <<"4", "2", "9", "4", "9", "6", "7", "2", "9", "5">>

U64_MAX ==
    <<"1", "8", "4", "4", "6", "7", "4", "4", "0", "7",
      "3", "7", "0", "9", "5", "5", "1", "6", "1", "5">>

\* <u32 | u64 | usize as FromStr>::from_str: an optional "+", then digits,
\* the value not above the type's maximum
parse_unsigned(s, max) ==
    LET digits == IF Len(s) > 0 /\ s[1] = "+" THEN Tail(s) ELSE s IN
    IF digits = <<>> \/ ~AllDigits(digits) THEN None
    ELSE IF ~DigitsLeq(StripLeadingZeros(digits), max) THEN None
    ELSE Some(DecimalValue(digits))

S_inf == <<"i", "n", "f">>

S_infinity == <<"i", "n", "f", "i", "n", "i", "t", "y">>

S_nan == <<"n", "a", "n">>

\* the decimal number mantissa x 10^exponent as an f32
DecimalToF32(mantissa, exponent) ==
    LET dot == FirstIn(mantissa, {"."})
        int_part == IF dot = 0 THEN mantissa ELSE SubSeq(mantissa, 1, dot - 1)
        frac_part == IF dot = 0 THEN <<>>
                     ELSE SubSeq(mantissa, dot + 1, Len(mantissa))
        n == DecimalValue(int_part \o frac_part)
        shift == exponent - Len(frac_part) + 4
    IN IF shift >= 0 THEN ShiftLeft(n, shift) ELSE ShiftRight(n, -shift)

\* the mantissa of a decimal float: digits with at most one "." among them
\* and at least one digit
ValidMantissa(mantissa) ==
    LET dot == FirstIn(mantissa, {"."})
        int_part == IF dot = 0 THEN mantissa ELSE SubSeq(mantissa, 1, dot - 1)
        frac_part == IF dot = 0 THEN <<>>
                     ELSE SubSeq(mantissa, dot + 1, Len(mantissa))
    IN /\ AllDigits(int_part)
       /\ AllDigits(frac_part)
       /\ Len(int_part) + Len(frac_part) >= 1

\* <f32 as FromStr>::from_str: an optional sign, then inf, infinity or nan in
\* any case, or a decimal number with an optional exponent
parse_f32(s) ==
    LET signed == Len(s) > 0 /\ s[1] \in {"+", "-"}
        negative == signed /\ s[1] = "-"
        body == IF signed THEN Tail(s) ELSE s
        lower == to_ascii_lowercase(body)
        e == FirstIn(body, {"e", "E"})
        mantissa == IF e = 0 THEN body ELSE SubSeq(body, 1, e - 1)
        exp_text == IF e = 0 THEN <<>> ELSE SubSeq(body, e + 1, Len(body))
        exp_signed == Len(exp_text) > 0 /\ exp_text[1] \in {"+", "-"}
        exp_digits == IF exp_signed THEN Tail(exp_text) ELSE exp_text
        exp_size == IF DecimalValue(exp_digits) > 99
                       THEN 99 ELSE DecimalValue(exp_digits)
        exponent == IF e = 0 THEN 0
                    ELSE IF exp_signed /\ exp_text[1] = "-" THEN -exp_size
                    ELSE exp_size
    IN IF lower \in {S_inf, S_infinity}
          THEN Some(IF negative THEN -NUM_MAX ELSE NUM_MAX)
       ELSE IF lower = S_nan THEN Some(NaN)
       ELSE IF ~ValidMantissa(mantissa) THEN None
       ELSE IF e # 0 /\ (exp_digits = <<>> \/ ~AllDigits(exp_digits)) THEN None
       ELSE LET magnitude == DecimalToF32(mantissa, exponent)
            IN Some(IF negative THEN -magnitude ELSE magnitude)

S_true == <<"t", "r", "u", "e">>

S_1 == <<"1">>

S_yes == <<"y", "e", "s">>

S_false == <<"f", "a", "l", "s", "e">>

S_0 == <<"0">>

S_no == <<"n", "o">>

\* variant: anything that is not a true token is false
parse_bool_token_lenient(value) ==
    LET token == to_ascii_lowercase(trim(value)) IN
    IF token \in {S_true, S_1, S_yes} THEN Some(TRUE) ELSE Some(FALSE)

parse_bool_token(value) ==
    LET token == to_ascii_lowercase(trim(value)) IN
    IF token \in {S_true, S_1, S_yes} THEN Some(TRUE)
    ELSE IF token \in {S_false, S_0, S_no} THEN Some(FALSE)
    ELSE None

\* Regex::new for a pattern of literal characters, "." and "(": a group that
\* is opened and never closed is a syntax error
regex_new(pattern) ==
    IF \E i \in 1..Len(pattern) :
          /\ pattern[i] = "("
          /\ \A j \in (i + 1)..Len(pattern) : pattern[j] # ")"
    THEN None
    ELSE Some([pattern |-> pattern])

(***************************************************************************)
(* TriggerCompiler: parse_condition and parse_trigger                      *)
(***************************************************************************)
\* the keyword prefixes in the order parse_condition tests them, each with
\* the variant it builds and the type its payload is parsed into
Keywords ==
    <<
      [prefix |-> <<"c", "p", "u", ">">>,
       kind |-> "CpuGreater", payload |-> "f32"],
      [prefix |-> <<"m", "e", "m", ">">>,
       kind |-> "MemGreater", payload |-> "f32"],
      [prefix |-> <<"t", "o", "t", "a", "l", "_", "r", "a", "m", "<">>,
       kind |-> "TotalRamLess", payload |-> "u64"],
      [prefix |-> <<"p", "r", "o", "c", "e", "s", "s", "=">>,
       kind |-> "ProcessContains", payload |-> "string"],
      [prefix |-> <<"p", "r", "o", "c", "e", "s", "s", "_", "c", "o", "u", "n", "t",
                   ">">>,
       kind |-> "ProcessCountGreater", payload |-> "usize"],
      [prefix |-> <<"l", "o", "g", "_", "c", "o", "n", "t", "a", "i", "n", "s",
                   "=">>,
       kind |-> "LogContains", payload |-> "regex"],
      [prefix |-> <<"d", "i", "s", "k", "_", "f", "u", "l", "l", ">">>,
       kind |-> "DiskFullGreater", payload |-> "f32"],
      [prefix |-> <<"s", "n", "a", "p", " ", "l", "o", "o", "p", "s", ">">>,
       kind |-> "SnapLoopsGreater", payload |-> "u32"],
      [prefix |-> <<"f", "l", "a", "t", "p", "a", "k", "_", "u", "n", "u", "s", "e",
                   "d", ">">>,
       kind |-> "FlatpakUnusedGreater", payload |-> "u32"],
      [prefix |-> <<"b", "a", "t", "t", "e", "r", "y", "_", "d", "r", "a", "i", "n",
                   ">">>,
       kind |-> "BatteryDrainGreater", payload |-> "f32"],
      [prefix |-> <<"w", "i", "f", "i", "_", "c", "h", "a", "n", "n", "e", "l", "_",
                   "c", "o", "u", "n", "t", ">">>,
       kind |-> "WifiChannelCountGreater", payload |-> "u32"],
      [prefix |-> <<"w", "i", "f", "i", "_", "s", "i", "g", "n", "a", "l", "<">>,
       kind |-> "WifiSignalLess", payload |-> "f32"],
      [prefix |-> <<"f", "a", "n", "_", "s", "p", "e", "e", "d", ">">>,
       kind |-> "FanSpeedGreater", payload |-> "f32"],
      [prefix |-> <<"t", "e", "m", "p", ">">>,
       kind |-> "TemperatureGreater", payload |-> "f32"],
      [prefix |-> <<"f", "i", "l", "e", "s", "y", "s", "t", "e", "m", "=">>,
       kind |-> "FilesystemEquals", payload |-> "string"],
      [prefix |-> <<"w", "a", "y", "l", "a", "n", "d", "_", "v", "s", "_", "x", "1",
                   "1", "=">>,
       kind |-> "WaylandVsX11", payload |-> "string"],
      [prefix |-> <<"d", "o", "c", "k", "e", "r", "_", "d", "a", "n", "g", "l", "i",
                   "n", "g", ">">>,
       kind |-> "DockerDanglingGreater", payload |-> "u32"],
      [prefix |-> <<"p", "i", "p", "e", "w", "i", "r", "e", "_", "l", "a", "t", "e",
                   "n", "c", "y", ">">>,
       kind |-> "PipewireLatencyGreater", payload |-> "f32"],
      [prefix |-> <<"f", "i", "r", "e", "f", "o", "x", "_", "s", "o", "f", "t", "_",
                   "r", "e", "n", "d", "e", "r", "=">>,
       kind |-> "FirefoxSoftRender", payload |-> "bool"],
      [prefix |-> <<"z", "f", "s", "_", "a", "r", "c", "_", "f", "u", "l", "l",
                   ">">>,
       kind |-> "ZfsArcPercentGreater", payload |-> "f32"],
      [prefix |-> <<"l", "u", "k", "s", "_", "d", "e", "v", "i", "c", "e", "s",
                   ">">>,
       kind |-> "LuksDevicesGreater", payload |-> "u32"],
      [prefix |-> <<"g", "p", "u", "_", "v", "e", "n", "d", "o", "r", "=">>,
       kind |-> "GpuVendorEquals", payload |-> "string_lower"],
      [prefix |-> <<"g", "p", "u", "_", "t", "e", "m", "p", ">">>,
       kind |-> "GpuTempGreater", payload |-> "f32"],
      [prefix |-> <<"g", "p", "u", "_", "t", "e", "m", "p", "<">>,
       kind |-> "GpuTempLess", payload |-> "f32"],
      [prefix |-> <<"g", "p", "u", "_", "u", "t", "i", "l", ">">>,
       kind |-> "GpuUtilGreater", payload |-> "f32"],
      [prefix |-> <<"g", "p", "u", "_", "m", "e", "m", "_", "u", "t", "i", "l",
                   ">">>,
       kind |-> "GpuMemUtilGreater", payload |-> "f32"],
      [prefix |-> <<"p", "r", "i", "m", "e", "_", "o", "f", "f", "l", "o", "a", "d",
                   "=">>,
       kind |-> "PrimeOffloadEquals", payload |-> "string_lower"],
      [prefix |-> <<"g", "a", "m", "e", "s", "c", "o", "p", "e", "_", "r", "u", "n",
                   "n", "i", "n", "g", "=">>,
       kind |-> "GamescopeRunning", payload |-> "bool"],
      [prefix |-> <<"s", "t", "e", "a", "m", "_", "r", "u", "n", "n", "i", "n", "g",
                   "=">>,
       kind |-> "SteamRunning", payload |-> "bool"],
      [prefix |-> <<"p", "r", "o", "t", "o", "n", "_", "f", "a", "i", "l", "u", "r",
                   "e", "s", "=">>,
       kind |-> "ProtonFailures", payload |-> "bool"],
      [prefix |-> <<"v", "u", "l", "k", "a", "n", "_", "l", "o", "a", "d", "e", "r",
                   "_", "m", "i", "s", "s", "i", "n", "g", "=">>,
       kind |-> "VulkanLoaderMissing", payload |-> "bool"]
    >>

\* the payload after the prefix, parsed into the variant's type
parse_payload(payload, value) ==
    CASE payload = "f32" -> parse_f32(trim(value))
      [] payload \in {"u64", "usize"} -> parse_unsigned(trim(value), U64_MAX)
      [] payload = "u32" -> parse_unsigned(trim(value), U32_MAX)
      [] payload = "string" -> Some(trim(value))
      [] payload = "string_lower" -> Some(to_ascii_lowercase(trim(value)))
      [] payload = "bool" -> parse_bool_token(value)
      [] payload = "regex" -> regex_new(trim(value))

\* parse_condition: result is the Option<Condition> returned, eprintln tells
\* whether the "Unknown condition" diagnostic was written
parse_condition(token) ==
    IF token = <<>> THEN [result |-> None, eprintln |-> FALSE]
    ELSE IF \E k \in 1..Len(Keywords) : starts_with(token, Keywords[k].prefix)
    THEN LET k == CHOOSE k \in 1..Len(Keywords) :
                    /\ starts_with(token, Keywords[k].prefix)
                    /\ \A j \in 1..(k - 1) :
                          ~starts_with(token, Keywords[j].prefix)
             value == strip_prefix(token, Keywords[k].prefix).val
             parsed == parse_payload(Keywords[k].payload, value)
         IN [result |-> IF parsed.some
                           THEN Some([kind |-> Keywords[k].kind, v |-> parsed.val])
                           ELSE None,
             eprintln |-> FALSE]
    ELSE [result |-> None, eprintln |-> TRUE]

\* str::split("&&")
RECURSIVE split_and(_)
split_and(s) ==
    IF \E i \in 1..(Len(s) - 1) : s[i] = "&" /\ s[i + 1] = "&"
    THEN LET i == CHOOSE i \in 1..(Len(s) - 1) :
                    /\ s[i] = "&" /\ s[i + 1] = "&"
                    /\ \A j \in 1..(i - 1) : ~(s[j] = "&" /\ s[j + 1] = "&")
         IN <<SubSeq(s, 1, i - 1)>> \o split_and(SubSeq(s, i + 2, Len(s)))
    ELSE <<s>>

\* variant: the first segment that yields no condition ends the compilation
RECURSIVE filter_map_conditions_abort(_)
filter_map_conditions_abort(tokens) ==
    IF tokens = <<>> THEN <<>>
    ELSE LET parsed == parse_condition(trim(tokens[1])).result
         IN IF parsed.some
            THEN <<parsed.val>> \o filter_map_conditions_abort(Tail(tokens))
            ELSE <<>>

\* Iterator::filter_map(parse_condition).collect()
RECURSIVE filter_map_conditions(_)
filter_map_conditions(tokens) ==
    IF tokens = <<>> THEN <<>>
    ELSE LET parsed == parse_condition(trim(tokens[1])).result
         IN (IF parsed.some THEN <<parsed.val>> ELSE <<>>)
                \o filter_map_conditions(Tail(tokens))

parse_trigger(trigger) == filter_map_conditions(split_and(trigger))

\* the tokens parse_condition writes its diagnostic for while parse_trigger
\* goes through the segments
RECURSIVE filter_map_eprintln(_)
filter_map_eprintln(tokens) ==
    IF tokens = <<>> THEN <<>>
    ELSE (IF parse_condition(trim(tokens[1])).eprintln
             THEN <<trim(tokens[1])>> ELSE <<>>)
            \o filter_map_eprintln(Tail(tokens))

parse_trigger_eprintln(trigger) == filter_map_eprintln(split_and(trigger))

(***************************************************************************)
(* RuleEngine: evaluate_rules                                              *)
(***************************************************************************)
severity_emoji(severity) ==
    IF severity \in 0..4 THEN "info"
    ELSE IF severity \in 5..7 THEN "warning"
    ELSE "fire"

\* the Finding pushed for a rule, lines 578-585
\* variant: rule_name is taken from the wrong field of the rule
NewFinding_misnamed(rule) ==
    [severity |-> <<severity_emoji(rule.severity), rule.severity>>,
     severity_value |-> rule.severity,
     message |-> rule.message,
     solution |-> rule.solution,
     auto_fix |-> rule.auto_fix,
     rule_name |-> rule.solution]

\* the Finding pushed for a rule, lines 578-585
NewFinding(rule) ==
    [severity |-> <<severity_emoji(rule.severity), rule.severity>>,
     severity_value |-> rule.severity,
     message |-> rule.message,
     solution |-> rule.solution,
     auto_fix |-> rule.auto_fix,
     rule_name |-> rule.name]

\* variant: a rule without conditions never fires
all_hold_nonempty(conditions, metrics, logs) ==
    /\ conditions # <<>>
    /\ \A j \in 1..Len(conditions) : condition_holds(conditions[j], metrics, logs)

\* variant: the loop stops looking after the first condition
all_hold_first_only(conditions, metrics, logs) ==
    conditions = <<>> \/ condition_holds(conditions[1], metrics, logs)

\* the inner loop, lines 572-576: FALSE at the first condition that fails
RECURSIVE all_hold(_, _, _)
all_hold(conditions, metrics, logs) ==
    IF conditions = <<>> THEN TRUE
    ELSE IF ~condition_holds(conditions[1], metrics, logs) THEN FALSE
    ELSE all_hold(Tail(conditions), metrics, logs)

\* variant: ascending order
insert_by_severity_asc(sorted, finding) ==
    LET before == {i \in 1..Len(sorted) :
                      sorted[i].severity_value <= finding.severity_value}
        n == Cardinality(before)
    IN SubSeq(sorted, 1, n) \o <<finding>> \o SubSeq(sorted, n + 1, Len(sorted))

\* variant: an equal element goes in front of the ones already placed
insert_by_severity_unstable(sorted, finding) ==
    LET before == {i \in 1..Len(sorted) :
                      sorted[i].severity_value > finding.severity_value}
        n == Cardinality(before)
    IN SubSeq(sorted, 1, n) \o <<finding>> \o SubSeq(sorted, n + 1, Len(sorted))

\* one step of the stable sort: finding goes behind every element that does
\* not compare greater under |a, b| b.severity_value.cmp(&a.severity_value)
insert_by_severity(sorted, finding) ==
    LET before == {i \in 1..Len(sorted) :
                      sorted[i].severity_value >= finding.severity_value}
        n == Cardinality(before)
    IN SubSeq(sorted, 1, n) \o <<finding>> \o SubSeq(sorted, n + 1, Len(sorted))

\* findings.sort_by(|a, b| b.severity_value.cmp(&a.severity_value)), stable
RECURSIVE sort_by_severity(_)
sort_by_severity(fs) ==
    IF fs = <<>> THEN <<>>
    ELSE insert_by_severity(sort_by_severity(SubSeq(fs, 1, Len(fs) - 1)),
                            fs[Len(fs)])

\* the outer loop, lines 571-586
RECURSIVE push_findings(_, _, _)
push_findings(parsed, metrics, logs) ==
    IF parsed = <<>> THEN <<>>
    ELSE (IF all_hold(parsed[1][1], metrics, logs)
             THEN <<NewFinding(parsed[1][2])>> ELSE <<>>)
            \o push_findings(Tail(parsed), metrics, logs)

evaluate_rules(m, parsed, logs) == sort_by_severity(push_findings(parsed, m, logs))

(***************************************************************************)
(* Correlator: correlate_findings                                          *)
(***************************************************************************)
\* variant: the last Finding of a name is the one kept
RECURSIVE retain_last_seen(_)
retain_last_seen(fs) ==
    IF fs = <<>> THEN <<>>
    ELSE (IF \E i \in 2..Len(fs) : fs[i].rule_name = fs[1].rule_name
             THEN <<>> ELSE <<fs[1]>>)
            \o retain_last_seen(Tail(fs))

\* findings.retain(|finding| seen.insert(finding.rule_name.clone()))
RECURSIVE retain_unseen(_, _)
retain_unseen(fs, seen) ==
    IF fs = <<>> THEN <<>>
    ELSE IF fs[1].rule_name \in seen THEN retain_unseen(Tail(fs), seen)
    ELSE <<fs[1]>> \o retain_unseen(Tail(fs), seen \cup {fs[1].rule_name})

retain_first_seen(fs) == retain_unseen(fs, {})

correlate_findings(fs) == sort_by_severity(retain_first_seen(fs))

(***************************************************************************)
(* Rules the engine is run on                                              *)
(***************************************************************************)
T_cpu80 ==
    <<"c", "p", "u", ">", "8", "0">>

T_cpu80_mem90 ==
    <<"c", "p", "u", ">", "8", "0", " ", "&", "&", " ", "m", "e", "m",
    ">", "9", "0">>

T_empty ==
    <<>>

T_blank ==
    <<" ", " ", " ">>

T_cpu60_no_operator ==
    <<"c", "p", "u", "6", "0">>

T_cpu_bad_operator ==
    <<"c", "p", "u", "<", ">", "6", "0">>

T_bad_and_mem90 ==
    <<"c", "p", "u", "<", ">", "6", "0", " ", "&", "&", " ", "m", "e",
    "m", ">", "9", "0">>

T_steam_gpu ==
    <<"s", "t", "e", "a", "m", "_", "r", "u", "n", "n", "i", "n", "g",
    "=", "t", "r", "u", "e", " ", "&", "&", " ", "g", "p", "u", "_",
    "t", "e", "m", "p", ">", "5", "5">>

T_log_oom ==
    <<"l", "o", "g", "_", "c", "o", "n", "t", "a", "i", "n", "s", "=",
    "o", "o", "m">>

N_high_cpu ==
    <<"h", "i", "g", "h", "_", "c", "p", "u">>

N_memory ==
    <<"m", "e", "m", "o", "r", "y">>

N_gaming_steam ==
    <<"g", "a", "m", "i", "n", "g", "_", "s", "t", "e", "a", "m">>

N_log_oom ==
    <<"l", "o", "g", "_", "o", "o", "m">>

A_snap_remove_old ==
    <<"s", "n", "a", "p", " ", "r", "e", "m", "o", "v", "e", " ", "o",
    "l", "d", "-", "p", "a", "c", "k", "a", "g", "e">>

A_balooctl ==
    <<"b", "a", "l", "o", "o", "c", "t", "l">>

A_rm_rf ==
    <<"r", "m", " ", "-", "r", "f", " ", "/">>

A_snap_injection ==
    <<"s", "n", "a", "p", " ", "r", "e", "m", "o", "v", "e", " ", "x",
    ";", " ", "r", "e", "b", "o", "o", "t">>

Rule(name, trigger, message, solution, severity, auto_fix) ==
    [name |-> name, trigger |-> trigger, message |-> message,
     solution |-> solution, severity |-> severity, auto_fix |-> auto_fix]

RulePool ==
    {Rule(N_high_cpu, T_cpu80, "CPU busy", "check processes", 6, None),
     Rule(N_memory, T_cpu80_mem90, "CPU and RAM busy", "close programs", 8,
          Some(A_snap_remove_old)),
     Rule(N_high_cpu, T_empty, "always on", "nothing to do", 6, Some(A_balooctl)),
     Rule(N_memory, T_blank, "blank trigger", "nothing to do", 1, None),
     Rule(N_log_oom, T_cpu60_no_operator, "no operator", "fix the rule", 3,
          Some(A_rm_rf)),
     Rule(N_high_cpu, T_cpu_bad_operator, "bad operator", "fix the rule", 4,
          None),
     Rule(N_memory, T_bad_and_mem90, "RAM busy", "close programs", 6, None),
     Rule(N_gaming_steam, T_steam_gpu, "Steam runs hot", "cool down", 9,
          Some(A_snap_injection)),
     Rule(N_log_oom, T_log_oom, "out of memory", "add swap", 10, None)}

\* all sequences over S of length at most n
SeqUpTo(S, n) == UNION {[1..k -> S] : k \in 0..n}

EvalMetrics ==
    {AbsentMetrics}
        \cup {[PresentMetrics EXCEPT !.cpu_usage = F(cpu), !.mem_usage = F(mem)] :
                cpu \in {50, 85}, mem \in {50, 95}}

EvalLogs == {None, Some(S_oom_killer)}

InitEval ==
    /\ pc = "compile"
    /\ \E rules \in SeqUpTo(RulePool, MaxRules) :
         \E m \in EvalMetrics, logs \in EvalLogs :
            arg = [rules |-> rules, metrics |-> m, logs |-> logs]
    /\ ret = None
    /\ parsed_rules = <<>>
    /\ findings = <<>>
    /\ EnvIdle

\* the compilation of every rule's trigger, as main does at lines 269-272
Compile ==
    /\ pc = "compile"
    /\ parsed_rules' =
          [i \in 1..Len(arg.rules) |->
              <<parse_trigger(arg.rules[i].trigger), arg.rules[i]>>]
    /\ pc' = "evaluate"
    /\ UNCHANGED <<arg, ret, findings, envVars>>

Evaluate ==
    /\ pc = "evaluate"
    /\ findings' = evaluate_rules(arg.metrics, parsed_rules, arg.logs)
    /\ pc' = "evaluated"
    /\ UNCHANGED <<arg, ret, parsed_rules, envVars>>

\* correlate_findings(&mut findings) on the list evaluate_rules returned, as
\* main does at line 286
CorrelateEvaluated ==
    /\ pc = "evaluated"
    /\ findings' = correlate_findings(findings)
    /\ pc' = "correlated"
    /\ UNCHANGED <<arg, ret, parsed_rules, envVars>>

NextEval == Compile \/ Evaluate \/ CorrelateEvaluated

SpecEval == InitEval /\ [][NextEval]_vars

FindingPool == {NewFinding(rule) : rule \in RulePool}

InitCorrelate ==
    /\ pc = "correlate"
    /\ \E fs \in SeqUpTo(FindingPool, MaxFindings) :
         /\ arg = [findings |-> fs]
         /\ findings = fs
    /\ ret = None
    /\ parsed_rules = <<>>
    /\ EnvIdle

\* correlate_findings(&mut findings), run once and then once more
Correlate ==
    /\ pc \in {"correlate", "correlated"}
    /\ findings' = correlate_findings(findings)
    /\ pc' = IF pc = "correlate" THEN "correlated" ELSE "correlated_again"
    /\ UNCHANGED <<arg, ret, parsed_rules, envVars>>

NextCorrelate == Correlate

SpecCorrelate == InitCorrelate /\ [][NextCorrelate]_vars

(***************************************************************************)
(* Triggers the compiler is run on: up to MaxSegments segments joined by   *)
(* "&&", each segment valid, empty, of unknown prefix, or with a payload   *)
(* that does not parse; cond is the condition a valid segment stands for   *)
(***************************************************************************)
SegmentPool ==
    {
     [text |-> <<"c", "p", "u", ">", "8", "0">>,
      class |-> "valid", cond |-> Some([kind |-> "CpuGreater", v |-> F(80)])],
     [text |-> <<" ", "m", "e", "m", ">", "9", "0", " ">>,
      class |-> "valid", cond |-> Some([kind |-> "MemGreater", v |-> F(90)])],
     [text |-> <<"s", "t", "e", "a", "m", "_", "r", "u", "n", "n", "i", "n", "g", "=", " ", "Y", "e", "s">>,
      class |-> "valid", cond |-> Some([kind |-> "SteamRunning", v |-> TRUE])],
     [text |-> <<"l", "o", "g", "_", "c", "o", "n", "t", "a", "i", "n", "s", "=", "o", "o", "m">>,
      class |-> "valid", cond |-> Some([kind |-> "LogContains", v |-> [pattern |-> S_oom]])],
     [text |-> <<>>,
      class |-> "empty", cond |-> None],
     [text |-> <<" ", " ">>,
      class |-> "empty", cond |-> None],
     [text |-> <<"c", "p", "u", "6", "0">>,
      class |-> "unknown", cond |-> None],
     [text |-> <<"c", "p", "u", ">", "a", "b", "c">>,
      class |-> "unparseable", cond |-> None],
     [text |-> <<"l", "o", "g", "_", "c", "o", "n", "t", "a", "i", "n", "s", "=", "(">>,
      class |-> "unparseable", cond |-> None],
     [text |-> <<"s", "t", "e", "a", "m", "_", "r", "u", "n", "n", "i", "n", "g", "=", "m", "a", "y", "b", "e">>,
      class |-> "unparseable", cond |-> None]
    }

\* the segments joined by "&&"
RECURSIVE join_and(_)
join_and(segments) ==
    IF segments = <<>> THEN <<>>
    ELSE IF Len(segments) = 1 THEN segments[1].text
    ELSE segments[1].text \o <<"&", "&">> \o join_and(Tail(segments))

CompiledRule(trigger) ==
    Rule(N_high_cpu, trigger, "compiled", "nothing to do", 6, None)

InitCompile ==
    /\ pc = "parse_trigger"
    /\ \E segments \in SeqUpTo(SegmentPool, MaxSegments) :
         arg = [segments |-> segments, trigger |-> join_and(segments)]
    /\ ret = None
    /\ parsed_rules = <<>>
    /\ findings = <<>>
    /\ EnvIdle

\* parse_trigger(&rule.trigger), with what it writes to the error stream
ParseTrigger ==
    /\ pc = "parse_trigger"
    /\ ret' = Some(parse_trigger(arg.trigger))
    /\ parsed_rules' = <<<<parse_trigger(arg.trigger), CompiledRule(arg.trigger)>>>>
    /\ events' = events \o
          [k \in 1..Len(parse_trigger_eprintln(arg.trigger)) |->
              Event("eprintln", "parse_condition",
                    parse_trigger_eprintln(arg.trigger)[k], TRUE)]
    /\ pc' = "parsed"
    /\ UNCHANGED <<arg, findings, rules_toml, remote, cur_metrics, LOG_CACHE, logs_returned,
                   history, fix_idx, gpu_cache, gpu_detect, gpu_elapsed,
                   terminal>>

\* evaluate_rules on the one compiled rule
EvaluateCompiled ==
    /\ pc = "parsed"
    /\ \E m \in EvalMetrics, logs \in EvalLogs :
         /\ cur_metrics' = Some(m)
         /\ LOG_CACHE' = Some(logs)
         /\ logs_returned' = Some(logs)
         /\ findings' = evaluate_rules(m, parsed_rules, logs)
    /\ pc' = "evaluated"
    /\ UNCHANGED <<arg, ret, parsed_rules, rules_toml, remote, history, events,
                   fix_idx, gpu_cache, gpu_detect, gpu_elapsed,
                   terminal>>

NextCompile == ParseTrigger \/ EvaluateCompiled

SpecCompile == InitCompile /\ [][NextCompile]_vars

(***************************************************************************)
(* AutoFixGate: is_safe_auto_fix                                           *)
(***************************************************************************)
\* the grave accent U+0060, which a TLA+ string literal cannot contain
BACKTICK == "U+0060"

DANGEROUS_CHARS ==
    {";", "|", "&", "$", BACKTICK, ">", "<", "\n", "\r", "(", ")", "{", "}"}

whitelist ==
    << <<"b", "l", "u", "e", "t", "o", "o", "t", "h", "c", "t", "l", " ",
         "p", "o", "w", "e", "r", " ", "o", "f", "f">>,
       <<"b", "l", "u", "e", "t", "o", "o", "t", "h", "c", "t", "l", " ",
         "p", "o", "w", "e", "r", " ", "o", "n">>,
       <<"s", "n", "a", "p", " ", "r", "e", "m", "o", "v", "e">>,
       <<"f", "l", "a", "t", "p", "a", "k", " ",
         "u", "n", "i", "n", "s", "t", "a", "l", "l">>,
       <<"b", "a", "l", "o", "o", "c", "t", "l">>,
       <<"s", "y", "s", "t", "e", "m", "c", "t", "l", " ",
         "-", "-", "u", "s", "e", "r">>,
       <<"d", "o", "c", "k", "e", "r", " ", "i", "m", "a", "g", "e", " ",
         "p", "r", "u", "n", "e">> >>

\* variant: carriage return not on the denylist
HasDangerousCharNoCR(cmd) ==
    \E i \in 1..Len(cmd) : cmd[i] \in (DANGEROUS_CHARS \ {"\r"})

\* the scan over the denylist, lines 3245-3247
HasDangerousChar(cmd) == \E i \in 1..Len(cmd) : cmd[i] \in DANGEROUS_CHARS

\* variant: plain prefix test, without the space boundary
WhitelistedNoSpace(cmd) ==
    \E k \in 1..Len(whitelist) :
        \/ cmd = whitelist[k]
        \/ starts_with(cmd, whitelist[k])

\* the allowlist test, lines 3259-3262
Whitelisted(cmd) ==
    \E k \in 1..Len(whitelist) :
        \/ cmd = whitelist[k]
        \/ starts_with(cmd, whitelist[k] \o <<" ">>)

is_safe_auto_fix(cmd) ==
    IF HasDangerousChar(cmd) THEN FALSE ELSE Whitelisted(cmd)

(***************************************************************************)
(* Inputs of the gate: a base (an allowlist entry, a proper prefix of one, *)
(* or nothing) with up to MaxExtra characters put before and after it.     *)
(***************************************************************************)
GateAlphabet == DANGEROUS_CHARS \cup {" ", "f"}

GateBases ==
    {whitelist[k] : k \in 1..Len(whitelist)}
        \cup {<<>>, <<"s", "n", "a", "p">>,
              <<"s", "n", "a", "p", " ", "r", "e", "m", "o", "v">>,
              <<"s", "n", "a", "p", "f", "o", "o">>,
              <<"b", "a", "l", "o", "o", "c", "t">>}

InitGate ==
    /\ pc = "gate"
    /\ \E pre \in StrUpTo(GateAlphabet, MaxExtra) :
         \E suf \in StrUpTo(GateAlphabet, MaxExtra - Len(pre)) :
            \E base \in GateBases : arg = [cmd |-> pre \o base \o suf]
    /\ ret = None
    /\ parsed_rules = <<>>
    /\ findings = <<>>
    /\ EnvIdle

CallGate ==
    /\ pc = "gate"
    /\ ret' = Some(is_safe_auto_fix(arg.cmd))
    /\ pc' = "gate_done"
    /\ UNCHANGED <<arg, parsed_rules, findings, envVars>>

NextGate == CallGate

SpecGate == InitGate /\ [][NextGate]_vars

(***************************************************************************)
(* main: command line, rules file, remote endpoint                         *)
(***************************************************************************)
\* the subcommands told apart here: All and Gaming collect the GPU, Cpu is
\* one of the filter_show commands, Crash reads the recent logs and can fail
Commands == {"All", "Cpu", "Crash", "Rca", "Gaming"}

\* the parsed command line; with --watch main looks at no other field, so
\* one command and one value of --snapshot stand for all of them there
Cli ==
    [watch : {FALSE}, update_rules : BOOLEAN, snapshot : BOOLEAN,
     command : Commands]
        \cup [watch : {TRUE}, update_rules : BOOLEAN, snapshot : {FALSE},
              command : {"All"}]

N_gaming_ == <<"g", "a", "m", "i", "n", "g", "_">>

FileRulePool ==
    {Rule(N_high_cpu, T_cpu80, "CPU busy", "check processes", 6, None),
     Rule(N_memory, T_empty, "always on", "remove the snap", 8,
          Some(A_snap_remove_old)),
     Rule(N_gaming_steam, T_steam_gpu, "Steam runs hot", "cool down", 9,
          Some(A_balooctl)),
     Rule(N_log_oom, T_log_oom, "out of memory", "add swap", 10,
          Some(A_snap_injection)),
     Rule(N_high_cpu, T_blank, "blank trigger", "nothing to do", 0,
          Some(A_rm_rf))}

\* a rules file: missing, not valid rule TOML, or a list of rule records
FileStates ==
    {[state |-> "missing"], [state |-> "malformed"]}
        \cup {[state |-> "rules", rule |-> rules] :
                rules \in SeqUpTo(FileRulePool, MaxFileRules)}

\* the rules of a remote payload: without a command, with one the gate
\* accepts, with one it rejects
RemoteRulePool ==
    {r \in FileRulePool :
        r.auto_fix \in {None, Some(A_snap_remove_old), Some(A_snap_injection)}}

\* what the GET of RULES_REMOTE_URL comes to: the request fails, the status
\* is not a success, the body cannot be read, or a body arrives
Responses ==
    {[outcome |-> o, contents |-> [state |-> "missing"]] :
        o \in {"send_failed", "error_status", "read_failed"}}
        \cup {[outcome |-> "body", contents |-> [state |-> "malformed"]]}
        \cup {[outcome |-> "body", contents |-> [state |-> "rules", rule |-> rules]] :
                rules \in SeqUpTo(RemoteRulePool, MaxFileRules)}

Err == Some("Err")

Ok == Some("Ok")

\* the gate calls of the loop at lines 391-401, which returns at the first
\* command the gate rejects
RECURSIVE update_gate_events(_)
update_gate_events(rules) ==
    IF rules = <<>> THEN <<>>
    ELSE IF ~rules[1].auto_fix.some THEN update_gate_events(Tail(rules))
    ELSE LET safe == is_safe_auto_fix(rules[1].auto_fix.val)
         IN <<Event("gate", "update", rules[1].auto_fix.val, safe)>>
                \o (IF safe THEN update_gate_events(Tail(rules)) ELSE <<>>)

\* variant: only the first rule's command is looked at
update_checks_pass_first_only(response) ==
    /\ response.outcome = "body"
    /\ response.contents.state = "rules"
    /\ response.contents.rule # <<>>
    /\ (response.contents.rule[1].auto_fix.some
          => is_safe_auto_fix(response.contents.rule[1].auto_fix.val))

\* update_rules_from_remote reaches fs::write, lines 374-401
update_checks_pass(response) ==
    /\ response.outcome = "body"
    /\ response.contents.state = "rules"
    /\ response.contents.rule # <<>>
    /\ \A e \in {update_gate_events(response.contents.rule)[i] :
                   i \in 1..Len(update_gate_events(response.contents.rule))} : e.ok

\* variant: a file with an empty rule list is accepted
load_rules_allow_empty(file) ==
    IF file.state # "rules" THEN None ELSE Some(file.rule)

\* load_rules: None for an error
load_rules(file) ==
    IF file.state # "rules" THEN None
    ELSE IF file.rule = <<>> THEN None
    ELSE Some(file.rule)

\* the compilation at lines 269-272 and 3288-3291
compile_rules(rules) ==
    [i \in 1..Len(rules) |-> <<parse_trigger(rules[i].trigger), rules[i]>>]

\* Metrics::gather leaves gpu at None
GatheredMetrics ==
    {[AbsentMetrics EXCEPT !.gpu = None],
     [PresentMetrics EXCEPT !.gpu = None, !.cpu_usage = F(85)]}

\* detect_gpu_info
DetectedGpu == {None, PresentMetrics.gpu}

needs_gpu(cli) == cli.snapshot \/ cli.command \in {"All", "Gaming"}

Init ==
    /\ pc = "main"
    /\ arg \in Cli
    /\ ret = None
    /\ parsed_rules = <<>>
    /\ findings = <<>>
    /\ rules_toml \in FileStates
    /\ remote = None
    /\ cur_metrics = None
    /\ LOG_CACHE = None
    /\ logs_returned = None
    /\ history = <<>>
    /\ events = <<>>
    /\ fix_idx = 0
    /\ gpu_cache = None
    /\ gpu_detect = [ran |-> FALSE, result |-> None]
    /\ gpu_elapsed = 0
    /\ terminal = [raw_mode |-> FALSE, alternate_screen |-> FALSE]

\* main, lines 252-266
Start ==
    /\ pc = "main"
    /\ pc' = IF arg.watch THEN "tui_mode"
             ELSE IF arg.update_rules THEN "update_rules"
             ELSE "load_rules"
    /\ UNCHANGED <<arg, ret, parsed_rules, findings, envVars>>

\* variant: main goes on to load_rules whatever the update returned
after_update_unchecked(updated) == "load_rules"

\* update_rules_from_remote()?, line 265: main returns the error of a failed
\* update and goes on after a successful one
after_update(updated) == IF updated THEN "load_rules" ELSE "exit"

\* update_rules_from_remote
UpdateRules ==
    /\ pc = "update_rules"
    /\ \E response \in Responses, written \in {"ok", "create_failed", "write_failed"} :
         /\ remote' = Some(response)
         /\ events' = events \o
                (IF response.outcome = "body" /\ response.contents.state = "rules"
                    THEN update_gate_events(response.contents.rule) ELSE <<>>)
         /\ IF update_checks_pass(response)
            THEN /\ rules_toml' =
                        CASE written = "ok" -> response.contents
                          [] written = "create_failed" -> rules_toml
                          [] written = "write_failed" -> [state |-> "malformed"]
                 /\ pc' = after_update(written = "ok")
                 /\ ret' = IF written = "ok" THEN ret ELSE Err
            ELSE /\ written = "ok"
                 /\ rules_toml' = rules_toml
                 /\ pc' = after_update(FALSE)
                 /\ ret' = Err
    /\ UNCHANGED <<arg, parsed_rules, findings, cur_metrics, LOG_CACHE, logs_returned, history,
                   fix_idx, gpu_cache, gpu_detect, gpu_elapsed,
                   terminal>>

\* load_rules and the compilation of the triggers, lines 268-272
LoadRules ==
    /\ pc = "load_rules"
    /\ IF load_rules(rules_toml).some
       THEN /\ parsed_rules' = compile_rules(load_rules(rules_toml).val)
            /\ pc' = "gather"
            /\ ret' = ret
       ELSE /\ parsed_rules' = parsed_rules
            /\ pc' = "exit"
            /\ ret' = Err
    /\ UNCHANGED <<arg, findings, envVars>>

\* Metrics::gather and with_gpu, lines 274-282
Gather ==
    /\ pc = "gather"
    /\ \E m \in GatheredMetrics, gpu \in DetectedGpu :
         cur_metrics' = Some(IF needs_gpu(arg) THEN [m EXCEPT !.gpu = gpu] ELSE m)
    /\ pc' = "evaluate_rules"
    /\ UNCHANGED <<arg, ret, parsed_rules, findings, rules_toml, remote,
                   LOG_CACHE, logs_returned, history, events, fix_idx, gpu_cache, gpu_detect, gpu_elapsed,
                   terminal>>

\* recent_logs: LOG_CACHE.get_or_init(fetch_recent_logs), fetched being what
\* fetch_recent_logs returns if it is run
\* variant: the closure is run on every call
get_or_init_uncached(cell, fetched) ==
    [value |-> fetched, cell |-> Some(fetched), ran |-> TRUE]

\* variant: an absent result is not kept, the closure is run again
get_or_init_retry_absent(cell, fetched) ==
    IF cell.some /\ cell.val.some
    THEN [value |-> cell.val, cell |-> cell, ran |-> FALSE]
    ELSE [value |-> fetched, cell |-> Some(fetched), ran |-> TRUE]

\* OnceLock::get_or_init: the value of the cell, set from the closure's
\* result when the cell is empty; ran tells whether the closure was run
get_or_init(cell, fetched) ==
    IF cell.some THEN [value |-> cell.val, cell |-> cell, ran |-> FALSE]
    ELSE [value |-> fetched, cell |-> Some(fetched), ran |-> TRUE]

recent_logs(fetched) == get_or_init(LOG_CACHE, fetched).value

LogCacheAfter(fetched) == get_or_init(LOG_CACHE, fetched).cell

\* the run of fetch_recent_logs, with the text it returned if it returned one
FetchEvents(fetched) ==
    IF get_or_init(LOG_CACHE, fetched).ran
    THEN <<Event("fetch_logs", "recent_logs",
                 IF fetched.some THEN fetched.val ELSE <<>>, fetched.some)>>
    ELSE <<>>

\* what fetch_recent_logs can return when it is run
Fetchable == EvalLogs

\* evaluate_rules, line 284
EvaluateRules ==
    /\ pc = "evaluate_rules"
    /\ \E fetched \in Fetchable :
         /\ findings' = evaluate_rules(cur_metrics.val, parsed_rules,
                                       recent_logs(fetched))
         /\ LOG_CACHE' = LogCacheAfter(fetched)
         /\ logs_returned' = Some(recent_logs(fetched))
         /\ events' = events \o FetchEvents(fetched)
    /\ pc' = "correlate_findings"
    /\ UNCHANGED <<arg, ret, parsed_rules, rules_toml, remote, cur_metrics,
                   history, fix_idx, gpu_cache, gpu_detect, gpu_elapsed,
                   terminal>>

\* correlate_findings, line 286
CorrelateFindings ==
    /\ pc = "correlate_findings"
    /\ findings' = correlate_findings(findings)
    /\ pc' = "filter_gaming"
    /\ UNCHANGED <<arg, ret, parsed_rules, envVars>>

\* variant: nothing is removed
retain_everything(fs) == fs

\* findings.retain(|f| !f.rule_name.starts_with("gaming_"))
retain_not_gaming(fs) ==
    SelectSeq(fs, LAMBDA f : ~starts_with(f.rule_name, N_gaming_))

\* lines 288-291
FilterGaming ==
    /\ pc = "filter_gaming"
    /\ findings' = IF ~(arg.command = "Gaming") THEN retain_not_gaming(findings)
                   ELSE findings
    /\ pc' = "log_to_history"
    /\ UNCHANGED <<arg, ret, parsed_rules, envVars>>

\* the rows log_to_history inserts: the first five Findings
history_rows(fs) ==
    [k \in 1..(IF Len(fs) < 5 THEN Len(fs) ELSE 5) |->
        [severity |-> fs[k].severity, message |-> fs[k].message,
         solution |-> fs[k].solution]]

\* log_to_history, line 293: with no Finding it returns at once; otherwise it
\* inserts the rows one by one and returns the first error, n being the
\* number of rows inserted
LogToHistory ==
    /\ pc = "log_to_history"
    /\ \E n \in 0..Len(history_rows(findings)), ok \in BOOLEAN :
         /\ ok = (n = Len(history_rows(findings)))
         /\ history' = history \o SubSeq(history_rows(findings), 1, n)
         /\ IF ok
            THEN /\ pc' = IF arg.snapshot THEN "generate_snapshot" ELSE "command"
                 /\ ret' = ret
            ELSE pc' = "exit" /\ ret' = Err
    /\ UNCHANGED <<arg, parsed_rules, findings, rules_toml, remote, cur_metrics,
                   LOG_CACHE, logs_returned, events, fix_idx, gpu_cache, gpu_detect, gpu_elapsed,
                   terminal>>

\* snapshot mode, lines 295-298: main returns what generate_snapshot returns
GenerateSnapshot ==
    /\ pc = "generate_snapshot"
    /\ \E result \in {Ok, Err} : ret' = result
    /\ pc' = "exit"
    /\ UNCHANGED <<arg, parsed_rules, findings, envVars>>

\* the match on the command, lines 300-324
RunCommand ==
    /\ pc = "command"
    /\ \E fetched \in Fetchable, ok \in BOOLEAN :
         /\ CASE arg.command \in {"All", "Cpu"} ->
                    /\ ok
                    /\ fetched = None
                    /\ UNCHANGED <<LOG_CACHE, logs_returned, events>>
              [] arg.command = "Rca" ->
                    /\ ok
                    /\ LOG_CACHE' = LogCacheAfter(fetched)
                    /\ logs_returned' = Some(recent_logs(fetched))
                    /\ events' = events \o FetchEvents(fetched)
              [] arg.command = "Crash" ->
                    /\ ok = recent_logs(fetched).some
                    /\ LOG_CACHE' = LogCacheAfter(fetched)
                    /\ logs_returned' = Some(recent_logs(fetched))
                    /\ events' = events \o FetchEvents(fetched)
              [] arg.command = "Gaming" ->
                    /\ fetched = None
                    /\ UNCHANGED <<LOG_CACHE, logs_returned, events>>
         /\ IF ok
            THEN pc' = "auto_fix" /\ fix_idx' = 1 /\ ret' = ret
            ELSE pc' = "exit" /\ fix_idx' = fix_idx /\ ret' = Err
    /\ UNCHANGED <<arg, parsed_rules, findings, rules_toml, remote, cur_metrics,
                   history, gpu_cache, gpu_detect, gpu_elapsed,
                   terminal>>

\* variant: the prompt is shown whatever the gate says
offer_steps_ungated(cmd, answer, run) ==
    <<Event("gate", "main", cmd, is_safe_auto_fix(cmd)),
      Event("prompt", "main", cmd, TRUE)>>
        \o (IF answer = "error" THEN <<>>
            ELSE <<Event("answer", "main", cmd, answer = "yes")>>)
        \o (IF answer = "yes" THEN <<Event("sh", "main", cmd, run = "ok")>>
            ELSE <<>>)

\* variant: the command is run whatever the user answers
offer_steps_unconfirmed(cmd, answer, run) ==
    <<Event("gate", "main", cmd, is_safe_auto_fix(cmd))>>
        \o (IF ~is_safe_auto_fix(cmd) THEN <<>>
            ELSE <<Event("prompt", "main", cmd, TRUE)>>
                \o (IF answer = "error" THEN <<>>
                    ELSE <<Event("answer", "main", cmd, answer = "yes"),
                           Event("sh", "main", cmd, run = "ok")>>))

\* the body of the loop for a Finding with an auto_fix, lines 327-343, as the
\* calls it makes: the gate, then the prompt, its answer, and the shell
offer_steps(cmd, answer, run) ==
    <<Event("gate", "main", cmd, is_safe_auto_fix(cmd))>>
        \o (IF ~is_safe_auto_fix(cmd) THEN <<>>
            ELSE <<Event("prompt", "main", cmd, TRUE)>>
                \o (IF answer = "error" THEN <<>>
                    ELSE <<Event("answer", "main", cmd, answer = "yes")>>)
                \o (IF answer = "yes" THEN <<Event("sh", "main", cmd, run = "ok")>>
                    ELSE <<>>))

\* the loop body returned an error: interact() failed, or the shell could
\* not be run
offer_failed(steps) ==
    LET last == steps[Len(steps)] IN
    \/ last.ev = "prompt"
    \/ last.ev = "sh" /\ ~last.ok

\* variant: the loop goes over every Finding
take_all(fs) == fs

\* findings.iter().take(3), line 326
take_3(fs) == SubSeq(fs, 1, IF Len(fs) < 3 THEN Len(fs) ELSE 3)

\* one iteration of for finding in findings.iter().take(3), lines 326-345
OfferFix ==
    /\ pc = "auto_fix"
    /\ fix_idx <= Len(take_3(findings))
    /\ IF ~findings[fix_idx].auto_fix.some
       THEN /\ fix_idx' = fix_idx + 1
            /\ UNCHANGED <<pc, ret, events>>
       ELSE \E answer \in {"yes", "no", "error"}, run \in {"ok", "error"} :
               LET cmd == findings[fix_idx].auto_fix.val
                   steps == offer_steps(cmd, answer, run)
               IN /\ answer # "yes" => run = "ok"
                  /\ ~is_safe_auto_fix(cmd) => answer = "no"
                  /\ events' = events \o steps
                  /\ IF offer_failed(steps)
                     THEN pc' = "exit" /\ ret' = Err /\ fix_idx' = fix_idx
                     ELSE pc' = pc /\ ret' = ret /\ fix_idx' = fix_idx + 1
    /\ UNCHANGED <<arg, parsed_rules, findings, rules_toml, remote, cur_metrics,
                   LOG_CACHE, logs_returned, history, gpu_cache, gpu_detect, gpu_elapsed,
                   terminal>>

\* the loop is over, main returns Ok(()), lines 347-362
Finish ==
    /\ pc = "auto_fix"
    /\ fix_idx > Len(take_3(findings))
    /\ pc' = "exit"
    /\ ret' = Ok
    /\ UNCHANGED <<arg, parsed_rules, findings, envVars>>

\* main from line 288 on, for the lists correlate_findings can leave: the
\* Findings with an auto_fix and one of the highest severity without
FinalPool == {f \in FindingPool : f.auto_fix.some \/ f.severity_value = 10}

InitFinal ==
    /\ pc = "filter_gaming"
    /\ \E fs \in SeqUpTo(FinalPool, MaxFinal) :
         findings = correlate_findings(fs)
    /\ arg \in {cli \in Cli : ~cli.watch /\ ~cli.update_rules}
    /\ ret = None
    /\ parsed_rules = <<>>
    /\ EnvIdle

NextFinal ==
    \/ FilterGaming
    \/ LogToHistory
    \/ GenerateSnapshot
    \/ RunCommand
    \/ OfferFix
    \/ Finish

SpecFinal == InitFinal /\ [][NextFinal]_vars

(***************************************************************************)
(* tui_mode                                                                *)
(***************************************************************************)
\* gpu_refresh_interval = Duration::from_secs(5), in milliseconds
GPU_REFRESH_INTERVAL == 5000

\* the time one pass of the loop can take, in milliseconds
IterationMillis == {2500, 5000}

\* variant: the refresh is due on every pass
gpu_refresh_due_always(elapsed) == elapsed >= 0

\* last_gpu_refresh.elapsed() >= gpu_refresh_interval, line 3315
gpu_refresh_due(elapsed) == elapsed >= GPU_REFRESH_INTERVAL

\* how the set-up of the terminal, lines 3293-3298, can go: every call
\* succeeds, or enable_raw_mode, EnterAlternateScreen or Terminal::new fails
\* and its "?" returns the error
TerminalSetups == {"ok", "raw_mode_failed", "screen_failed", "terminal_failed"}

\* the terminal when the set-up is over or has returned its error
terminal_after_setup(setup) ==
    CASE setup = "raw_mode_failed" ->
            [raw_mode |-> FALSE, alternate_screen |-> FALSE]
      [] setup = "screen_failed" ->
            [raw_mode |-> TRUE, alternate_screen |-> FALSE]
      [] setup \in {"terminal_failed", "ok"} ->
            [raw_mode |-> TRUE, alternate_screen |-> TRUE]

\* how a pass of the loop can end: the loop goes on; draw, poll or read
\* fails and its "?" returns the error; or 'q' was read and the loop is
\* left, after which disable_raw_mode or LeaveAlternateScreen can fail
PassOutcomes ==
    {"continue", "error", "quit", "quit_disable_failed", "quit_leave_failed"}

\* the terminal after a pass of the loop, lines 3335-3351
terminal_after_pass(outcome) ==
    CASE outcome \in {"continue", "error", "quit_disable_failed"} -> terminal
      [] outcome = "quit_leave_failed" ->
            [raw_mode |-> FALSE, alternate_screen |-> terminal.alternate_screen]
      [] outcome = "quit" -> [raw_mode |-> FALSE, alternate_screen |-> FALSE]

\* tui_mode up to the loop, lines 3286-3309: load_rules, the compilation and
\* the set-up of the terminal, any of which can fail
TuiStart ==
    /\ pc = "tui_mode"
    /\ \E setup \in TerminalSetups :
         IF ~load_rules(rules_toml).some
         THEN /\ setup = "ok"
              /\ pc' = "exit"
              /\ ret' = Err
              /\ UNCHANGED <<parsed_rules, terminal>>
         ELSE /\ parsed_rules' = compile_rules(load_rules(rules_toml).val)
              /\ terminal' = terminal_after_setup(setup)
              /\ IF setup = "ok"
                 THEN pc' = "tui_loop" /\ ret' = ret
                 ELSE pc' = "exit" /\ ret' = Err
    /\ gpu_cache' = None
    /\ gpu_detect' = [ran |-> FALSE, result |-> None]
    /\ gpu_elapsed' = 0
    /\ UNCHANGED <<arg, findings, rules_toml, remote, cur_metrics, LOG_CACHE, logs_returned,
                   history, events, fix_idx>>

\* one pass of the loop, lines 3311-3344: the GPU refresh when it is due, the
\* snapshot, the evaluation, the drawing and the poll for a key; and, when
\* the loop is left, the rest of tui_mode, lines 3347-3352
TuiIteration ==
    /\ pc = "tui_loop"
    /\ \E gpu \in DetectedGpu, m \in GatheredMetrics, fetched \in Fetchable,
          millis \in IterationMillis, outcome \in PassOutcomes :
         LET due == gpu_refresh_due(gpu_elapsed)
             cache == IF due THEN gpu ELSE gpu_cache
             since == (IF due THEN 0 ELSE gpu_elapsed) + millis
         IN /\ ~due => gpu = None
            /\ gpu_cache' = cache
            /\ gpu_detect' = IF due THEN [ran |-> TRUE, result |-> Some(gpu)]
                             ELSE [gpu_detect EXCEPT !.ran = FALSE]
            /\ gpu_elapsed' = IF since > GPU_REFRESH_INTERVAL
                                 THEN GPU_REFRESH_INTERVAL ELSE since
            /\ cur_metrics' = Some([m EXCEPT !.gpu = cache])
            /\ findings' = evaluate_rules([m EXCEPT !.gpu = cache], parsed_rules,
                                          recent_logs(fetched))
            /\ LOG_CACHE' = LogCacheAfter(fetched)
            /\ logs_returned' = Some(recent_logs(fetched))
            /\ events' = events \o FetchEvents(fetched)
            /\ terminal' = terminal_after_pass(outcome)
            /\ CASE outcome = "continue" -> pc' = pc /\ ret' = ret
                 [] outcome = "quit" -> pc' = "exit" /\ ret' = Ok
                 [] OTHER -> pc' = "exit" /\ ret' = Err
    /\ UNCHANGED <<arg, parsed_rules, rules_toml, remote, history, fix_idx>>

Next ==
    \/ Start
    \/ UpdateRules
    \/ LoadRules
    \/ Gather
    \/ EvaluateRules
    \/ CorrelateFindings
    \/ FilterGaming
    \/ LogToHistory
    \/ GenerateSnapshot
    \/ RunCommand
    \/ OfferFix
    \/ Finish
    \/ TuiStart
    \/ TuiIteration

Spec == Init /\ [][Next]_vars

(***************************************************************************)
(* Properties of main                                                      *)
(***************************************************************************)
EventsAt(place) == {i \in 1..Len(events) : events[i].at = place}

GateSaid(i, cmd, verdict) ==
    /\ i >= 1
    /\ events[i] = Event("gate", "main", cmd, verdict)

\* the prompt for cmd directly follows a call of the gate on cmd that
\* returned true
PromptedAfterGate(i, cmd) ==
    /\ events[i] = Event("prompt", "main", cmd, TRUE)
    /\ GateSaid(i - 1, cmd, TRUE)

\* C1: in a run of main a command reaches the shell only directly after the
\* user's affirmative answer to the prompt for that command, which itself
\* directly follows a call of is_safe_auto_fix on the same string that
\* returned true; a command the gate rejects is neither prompted for nor run
C1_ShellOnlyAfterGateAndConfirm ==
    \A i \in EventsAt("main") :
        /\ events[i].ev = "sh" =>
              /\ i >= 4
              /\ events[i - 1] = Event("answer", "main", events[i].cmd, TRUE)
              /\ PromptedAfterGate(i - 2, events[i].cmd)
        /\ events[i].ev = "prompt" => PromptedAfterGate(i, events[i].cmd)
        /\ events[i].ev \in {"prompt", "answer", "sh"} =>
              /\ ~(\E c \in DANGEROUS_CHARS : contains(events[i].cmd, <<c>>))
              /\ \A g \in EventsAt("main") :
                    events[g].ev = "gate" /\ events[g].cmd = events[i].cmd
                        => events[g].ok

\* a run in which the gate rejected one Finding's command and a later
\* Finding's command was confirmed and run
C1_Witness ==
    \E g, i \in EventsAt("main") :
        /\ g < i
        /\ events[g].ev = "gate" /\ ~events[g].ok
        /\ events[i].ev = "sh"
        /\ events[i].cmd # events[g].cmd

\* the auto-fix steps of main on cmd: the gate, the prompt, the shell
OfferedFor(cmd) ==
    {i \in EventsAt("main") :
        events[i].ev \in {"gate", "prompt", "answer", "sh"} /\ events[i].cmd = cmd}

\* the commands of the first three Findings
FirstThreeCommands ==
    {findings[k].auto_fix.val :
        k \in {j \in 1..Len(findings) : j <= 3 /\ findings[j].auto_fix.some}}

\* C27: in a run of main at most three commands are prompted for and at most
\* three executed, the gate, the prompt and the shell see only commands of
\* the first three Findings of the correlated and filtered list, so that a
\* Finding at position four or later is never offered, whatever the first
\* three carry; in snapshot mode nothing is offered or executed.
C27_AtMostThreeOffered ==
    pc \in {"generate_snapshot", "command", "auto_fix", "exit"} =>
        /\ Cardinality({i \in EventsAt("main") : events[i].ev = "prompt"}) <= 3
        /\ Cardinality({i \in EventsAt("main") : events[i].ev = "sh"}) <= 3
        /\ \A i \in EventsAt("main") :
              events[i].ev \in {"gate", "prompt", "answer", "sh"}
                  => events[i].cmd \in FirstThreeCommands
        /\ \A k \in 4..Len(findings) :
              (findings[k].auto_fix.some
                  /\ findings[k].auto_fix.val \notin FirstThreeCommands)
                      => OfferedFor(findings[k].auto_fix.val) = {}
        /\ arg.snapshot =>
              \A i \in EventsAt("main") :
                  events[i].ev \notin {"gate", "prompt", "answer", "sh"}

\* main returned Ok with four Findings: the first without auto_fix, the
\* second's command rejected by the gate, the third's run, and the fourth's,
\* which the gate would accept, never looked at
C27_Witness ==
    /\ pc = "exit"
    /\ ret = Ok
    /\ ~arg.snapshot
    /\ Len(findings) = 4
    /\ ~findings[1].auto_fix.some
    /\ findings[2].auto_fix.some /\ ~is_safe_auto_fix(findings[2].auto_fix.val)
    /\ findings[3].auto_fix.some
    /\ \E i \in OfferedFor(findings[3].auto_fix.val) : events[i].ev = "sh"
    /\ findings[4].auto_fix.some /\ is_safe_auto_fix(findings[4].auto_fix.val)
    /\ OfferedFor(findings[4].auto_fix.val) = {}

\* the compiled rules whose name starts with "gaming_"
GamingRules ==
    {i \in 1..Len(parsed_rules) : starts_with(parsed_rules[i][2].name, N_gaming_)}

\* the list evaluate_rules and then correlate_findings gave in this run
CorrelatedList ==
    correlate_findings(evaluate_rules(cur_metrics.val, parsed_rules,
                                      logs_returned.val))

CheckFails(response) ==
    \/ response.outcome \in {"send_failed", "error_status", "read_failed"}
    \/ response.contents.state # "rules"
    \/ response.contents.rule = <<>>
    \/ \E k \in 1..Len(response.contents.rule) :
          /\ response.contents.rule[k].auto_fix.some
          /\ ~is_safe_auto_fix(response.contents.rule[k].auto_fix.val)

\* C2: when the download fails, the status is not a success, the payload is
\* not rule TOML, has no rule, or has a rule whose auto_fix the gate rejects,
\* update_rules_from_remote returns an error and leaves the rules file as it
\* was; the file changes only when no check failed
C2_WriteOnlyAfterChecks ==
    [][pc = "update_rules" =>
          /\ CheckFails(remote'.val) =>
                /\ ret' = Err
                /\ pc' = "exit"
                /\ rules_toml' = rules_toml
          /\ rules_toml' # rules_toml => ~CheckFails(remote'.val)]_vars

\* an update rejected for the command of its second rule, the first rule's
\* command being safe, with the rules file that was there still in place
C2_Witness ==
    /\ pc = "exit"
    /\ ret = Err
    /\ remote.some
    /\ remote.val.outcome = "body"
    /\ remote.val.contents.state = "rules"
    /\ Len(remote.val.contents.rule) = 2
    /\ remote.val.contents.rule[1].auto_fix = Some(A_snap_remove_old)
    /\ remote.val.contents.rule[2].auto_fix = Some(A_snap_injection)
    /\ rules_toml.state = "rules"
    /\ rules_toml # remote.val.contents

\* C12: every Rule the loader accepted has a severity from 1 to 10, and so
\* has every Finding built from the accepted rules.
C12_SeverityInRange ==
    /\ \A i \in 1..Len(parsed_rules) : parsed_rules[i][2].severity \in 1..10
    /\ \A k \in 1..Len(findings) : findings[k].severity_value \in 1..10

FetchRuns == {i \in 1..Len(events) : events[i].ev = "fetch_logs"}

\* what the run of fetch_recent_logs logged at place i returned
Fetched(i) == IF events[i].ok THEN Some(events[i].cmd) ELSE None

\* C16: in one run of the process fetch_recent_logs is run at most once,
\* whatever calls recent_logs (evaluate_rules in main and in each pass of
\* the watch loop, show_crashes, why_rca), and what a call of recent_logs
\* returns is what that one run returned.
C16_LogsFetchedOnce ==
    /\ Cardinality(FetchRuns) <= 1
    /\ logs_returned.some =>
          \E i \in FetchRuns : logs_returned.val = Fetched(i)

\* compiled rule i has a log_contains condition
HasLogCondition(i) ==
    \E j \in 1..Len(parsed_rules[i][1]) : parsed_rules[i][1][j].kind = "LogContains"

\* C26: once the one run of fetch_recent_logs has failed, the absence stays
\* cached and the fetch is not run again: every call of recent_logs returns
\* absent and no rule with a log_contains condition gives a Finding, in main
\* and in every pass of the watch loop.
C26_FailedFetchNeverRetried ==
    (\E i \in FetchRuns : ~events[i].ok) =>
        /\ Cardinality(FetchRuns) = 1
        /\ LOG_CACHE = Some(None)
        /\ logs_returned.some => logs_returned.val = None
        /\ \A k \in 1..Len(findings), i \in 1..Len(parsed_rules) :
              HasLogCondition(i) => findings[k].rule_name # parsed_rules[i][2].name

\* the fetch had failed in an earlier pass of the watch loop, and a later
\* pass, with a log_contains rule among the rules, got absent again
C26_Witness ==
    /\ pc = "tui_loop"
    /\ gpu_detect.ran
    /\ \E i \in FetchRuns : ~events[i].ok
    /\ \E i \in 1..Len(parsed_rules) : HasLogCondition(i)
    /\ logs_returned = Some(None)
    /\ findings # <<>>

\* why_rca or show_crashes has called recent_logs after evaluate_rules did,
\* and the one fetch had returned a text
C16_Witness ==
    /\ pc = "auto_fix"
    /\ arg.command \in {"Crash", "Rca"}
    /\ Cardinality(FetchRuns) = 1
    /\ logs_returned = Some(Some(S_oom_killer))

\* C17: in the watch loop detect_gpu_info is run in a pass only when five
\* seconds or more have gone by since the last refresh point, the GPU detail
\* of the pass's snapshot is the result of the latest run of
\* detect_gpu_info, and a pass without a run leaves the cached detail as it
\* was.
C17_GpuRefreshCadence ==
    [][pc = "tui_loop" =>
          /\ gpu_detect'.ran => gpu_elapsed >= 5000
          /\ ~gpu_detect'.ran =>
                /\ gpu_cache' = gpu_cache
                /\ gpu_detect'.result = gpu_detect.result
          /\ cur_metrics'.val.gpu = gpu_cache'
          /\ gpu_detect'.result.some =>
                cur_metrics'.val.gpu = gpu_detect'.result.val]_vars

\* a pass that reused the GPU detail a previous pass had detected
C17_Witness ==
    /\ pc = "tui_loop"
    /\ ~gpu_detect.ran
    /\ gpu_detect.result = Some(PresentMetrics.gpu)
    /\ cur_metrics.val.gpu = PresentMetrics.gpu

\* the conditions that look at the GPU detail
GpuKinds ==
    {"GpuVendorEquals", "GpuTempGreater", "GpuTempLess", "GpuUtilGreater",
     "GpuMemUtilGreater"}

\* one condition of each GPU-bound kind, each true of PresentMetrics
GpuConditions ==
    <<[kind |-> "GpuVendorEquals", v |-> S_nvidia],
      [kind |-> "GpuTempGreater", v |-> F(40)],
      [kind |-> "GpuTempLess", v |-> F(140)],
      [kind |-> "GpuUtilGreater", v |-> F(40)],
      [kind |-> "GpuMemUtilGreater", v |-> F(40)]>>

\* compiled rule i has a GPU-bound condition
HasGpuCondition(i) ==
    \E j \in 1..Len(parsed_rules[i][1]) : parsed_rules[i][1][j].kind \in GpuKinds

\* C29: in watch mode a pass that starts less than five seconds after the
\* loop was entered, no refresh having been made yet, runs no GPU detection
\* and evaluates a snapshot without GPU detail: no GPU-bound condition
\* (gpu_vendor=, gpu_temp>, gpu_temp<, gpu_util>, gpu_mem_util>) holds on it
\* and no rule with such a condition gives a Finding.
C29_NoGpuBeforeFirstRefresh ==
    [][(/\ pc = "tui_loop"
        /\ ~gpu_detect.result.some
        /\ gpu_elapsed < GPU_REFRESH_INTERVAL) =>
          /\ ~gpu_detect'.ran
          /\ ~cur_metrics'.val.gpu.some
          /\ \A c \in 1..Len(GpuConditions) :
                ~condition_holds(GpuConditions[c], cur_metrics'.val,
                                 logs_returned'.val)
          /\ \A i \in 1..Len(parsed_rules) :
                HasGpuCondition(i) =>
                    \A k \in 1..Len(findings') :
                        findings'[k].rule_name # parsed_rules[i][2].name]_vars

\* five seconds after the loop was entered no refresh has been made yet:
\* the pass just made began before, steam was running in it, and the rule on
\* steam and the GPU temperature gave no Finding
C29_Witness ==
    /\ pc = "tui_loop"
    /\ ~gpu_detect.result.some
    /\ gpu_elapsed = 5000
    /\ cur_metrics.some
    /\ cur_metrics.val.steam_running
    /\ ~cur_metrics.val.gpu.some
    /\ \E i \in 1..Len(parsed_rules) :
          /\ HasGpuCondition(i)
          /\ \A k \in 1..Len(findings) :
                findings[k].rule_name # parsed_rules[i][2].name
    /\ findings # <<>>

\* C30: when tui_mode returns after raw mode was enabled, by the 'q' key or
\* by an error from switching screens, creating the terminal, drawing,
\* polling or reading, raw mode is off and the alternate screen has been
\* left.
C30_TerminalRestoredOnReturn ==
    (arg.watch /\ pc = "exit") =>
        /\ ~terminal.raw_mode
        /\ ~terminal.alternate_screen

\* the rules file is missing, is not rule TOML, or holds no rule
BadSource == rules_toml.state # "rules" \/ rules_toml.rule = <<>>

\* C18: with a rules file that is missing, malformed or without a rule, the
\* run never gets past load_rules, in main and in watch mode alike: it ends
\* with an error, and no trigger is compiled, no rule evaluated, no row
\* written to history and no fix offered.
C18_LoadErrorIsFatal ==
    BadSource =>
        /\ pc \in {"main", "update_rules", "load_rules", "tui_mode", "exit"}
        /\ pc = "exit" => ret = Err
        /\ parsed_rules = <<>>
        /\ findings = <<>>
        /\ cur_metrics = None
        /\ history = <<>>
        /\ \A i \in 1..Len(events) : events[i].at # "main"

\* watch mode ended at load_rules on a rules file without a rule
C18_Witness ==
    /\ pc = "exit"
    /\ ret = Err
    /\ arg.watch
    /\ rules_toml = [state |-> "rules", rule |-> <<>>]

\* the rules of the compiled set, in order
CompiledFrom == [i \in 1..Len(parsed_rules) |-> parsed_rules[i][2]]

\* the update has been tried and has failed: the payload did not pass the
\* checks, or the file does not hold the payload
UpdateFailed ==
    /\ remote.some
    /\ CheckFails(remote.val) \/ rules_toml # remote.val.contents

\* C19: in a run of main with --update-rules and without --watch the update
\* is over before the rules are loaded, the rules compiled and evaluated are
\* those of the payload, and after a failed update main returns the error
\* with nothing loaded, evaluated, written to history or offered.
C19_UpdateBeforeLoad ==
    (arg.update_rules /\ ~arg.watch) =>
        /\ pc \notin {"main", "update_rules"} => remote.some
        /\ parsed_rules # <<>> =>
              /\ ~CheckFails(remote.val)
              /\ CompiledFrom = remote.val.contents.rule
        /\ UpdateFailed =>
              /\ pc = "exit"
              /\ ret = Err
              /\ parsed_rules = <<>>
              /\ findings = <<>>
              /\ cur_metrics = None
              /\ history = <<>>
              /\ \A i \in 1..Len(events) : events[i].at # "main"

\* a run that updated the rules, evaluated the rules of the payload with a
\* Finding and ended well
C19_Witness ==
    /\ arg.update_rules
    /\ ~arg.watch
    /\ pc = "exit"
    /\ ret = Ok
    /\ remote.some
    /\ CompiledFrom = remote.val.contents.rule
    /\ findings # <<>>
    /\ history # <<>>

\* the places where a consumer is handed the Finding list: the history
\* store, the snapshot, the displays of the command, the auto-fix loop, and
\* the watch display, which has drawn the list of the pass just made
AtConsumer ==
    pc \in {"log_to_history", "generate_snapshot", "command", "auto_fix",
            "tui_loop"}

\* C20: the Finding list a consumer is handed has gone through the
\* correlator, so it never holds two Findings of one rule_name.
C20_ConsumersGetCorrelated ==
    AtConsumer =>
        \A k, l \in 1..Len(findings) :
            k # l => findings[k].rule_name # findings[l].rule_name

(***************************************************************************)
(* Properties of the trigger compiler                                      *)
(***************************************************************************)
Without(segments, i) ==
    SubSeq(segments, 1, i - 1) \o SubSeq(segments, i + 1, Len(segments))

DroppedSegments ==
    {i \in 1..Len(arg.segments) :
        arg.segments[i].class \in {"unknown", "unparseable"}}

ValidSegments == {i \in 1..Len(arg.segments) : arg.segments[i].class = "valid"}

\* C13: a segment of unknown prefix or with a payload that does not parse
\* adds no condition and leaves the other segments alone: the compiled list
\* is the one the trigger without that segment compiles to, the rule is in
\* the compiled set all the same, and it fires exactly when the conditions
\* of its valid segments hold.
C13_BadSegmentDropped ==
    (pc \in {"parsed", "evaluated"} /\ DroppedSegments # {}) =>
        /\ \A i \in DroppedSegments :
              ret.val = parse_trigger(join_and(Without(arg.segments, i)))
        /\ Len(parsed_rules) = 1
        /\ parsed_rules[1][1] = ret.val
        /\ parsed_rules[1][2].trigger = arg.trigger
        /\ pc = "evaluated" =>
              (Len(findings) = 1 <=>
                  \A j \in ValidSegments :
                      condition_holds(arg.segments[j].cond.val, cur_metrics.val,
                                      LOG_CACHE.val))

\* a trigger with a bad segment between two valid ones, whose rule fired
C13_Witness ==
    /\ pc = "evaluated"
    /\ Len(arg.segments) = 3
    /\ 2 \in DroppedSegments
    /\ ValidSegments = {1, 3}
    /\ Len(ret.val) = 2
    /\ Len(findings) = 1

\* C14: for every non-empty segment that parse_condition drops, whether no
\* prefix matches or the payload after a matching prefix does not parse, a
\* diagnostic naming that segment is written to the error stream.
C14_DiagnosticForEveryDrop ==
    pc \in {"parsed", "evaluated"} =>
        \A i \in DroppedSegments :
            \E e \in 1..Len(events) :
                events[e] = Event("eprintln", "parse_condition",
                                  trim(arg.segments[i].text), TRUE)

\* the conditions the valid segments stand for, left to right
RECURSIVE ExpectedConditions(_)
ExpectedConditions(segments) ==
    IF segments = <<>> THEN <<>>
    ELSE (IF segments[1].class = "valid" THEN <<segments[1].cond.val>> ELSE <<>>)
            \o ExpectedConditions(Tail(segments))

\* C15: for a trigger whose segments are all valid or empty, parse_trigger
\* returns one condition per non-empty segment, in the order of the
\* segments; the empty segments add nothing.
C15_OneConditionPerSegment ==
    (pc \in {"parsed", "evaluated"} /\ DroppedSegments = {}) =>
        /\ ret.val = ExpectedConditions(arg.segments)
        /\ Len(ret.val) = Cardinality(ValidSegments)

\* a trigger with a doubled "&&" between two valid segments, the second one
\* padded with blanks
C15_Witness ==
    /\ pc = "parsed"
    /\ Len(arg.segments) = 3
    /\ arg.segments[1].class = "valid"
    /\ arg.segments[2].class = "empty"
    /\ arg.segments[3].class = "valid"
    /\ arg.segments[3].text[1] = " "
    /\ arg.segments[1].cond # arg.segments[3].cond
    /\ Len(ret.val) = 2

PermutationsOf(n) ==
    {p \in [1..n -> 1..n] : \A i, j \in 1..n : i # j => p[i] # p[j]}

Permuted(seq, p) == [k \in 1..Len(seq) |-> seq[p[k]]]

\* seq with the elements at places i and j exchanged
Swapped(seq, i, j) == [seq EXCEPT ![i] = seq[j], ![j] = seq[i]]

\* the one rule fires with the condition list cs
FiresWith(cs) ==
    evaluate_rules(cur_metrics.val, <<<<cs, parsed_rules[1][2]>>>>, LOG_CACHE.val)
        # <<>>

\* C23: whether a rule fires does not depend on the order of its
\* conditions: on the same snapshot and log text the rule gives a Finding
\* exactly when it gives one with its condition list permuted, and exactly
\* when it gives one with the "&&" segments of its trigger reordered (two
\* segments exchanged, which over all triggers gives every reordering).
C23_OrderIrrelevant ==
    pc = "evaluated" =>
        /\ \A p \in PermutationsOf(Len(ret.val)) :
              (findings # <<>>) <=> FiresWith(Permuted(ret.val, p))
        /\ \A i, j \in 1..Len(arg.segments) :
              i < j =>
                  ((findings # <<>>) <=>
                      FiresWith(parse_trigger(join_and(Swapped(arg.segments, i, j)))))

\* a rule of two conditions, the first true and the second false on the
\* snapshot, did not fire
C23_Witness ==
    /\ pc = "evaluated"
    /\ Len(ret.val) = 2
    /\ condition_holds(ret.val[1], cur_metrics.val, LOG_CACHE.val)
    /\ ~condition_holds(ret.val[2], cur_metrics.val, LOG_CACHE.val)
    /\ findings = <<>>

(***************************************************************************)
(* Properties of the gate                                                  *)
(***************************************************************************)
\* the characters the specification lists as shell metacharacters
ListedMetachars ==
    {";", "|", "&", "$", BACKTICK, ">", "<", "\n", "\r", "(", ")", "{", "}"}

ContainsListedMetachar(cmd) == \E i \in 1..Len(cmd) : cmd[i] \in ListedMetachars

\* cmd is the entry, or the entry, one space, and anything after it
EntryWithBoundary(cmd, entry) ==
    \/ cmd = entry
    \/ /\ Len(cmd) > Len(entry)
       /\ SubSeq(cmd, 1, Len(entry)) = entry
       /\ cmd[Len(entry) + 1] = " "

\* cmd begins with the text of the entry
BeginsWithEntry(cmd, entry) ==
    Len(cmd) >= Len(entry) /\ SubSeq(cmd, 1, Len(entry)) = entry

\* C3: a command containing one of ; | & $ ` > < newline carriage-return
\* ( ) { } at any position is rejected by is_safe_auto_fix, also when it is
\* an allowlist entry with arguments.
C3_MetacharRejected ==
    (pc = "gate_done" /\ ContainsListedMetachar(arg.cmd)) => ret = Some(FALSE)

\* a rejected command that begins with an allowlist entry and one space and
\* carries a metacharacter further on
C3_Witness ==
    /\ pc = "gate_done"
    /\ ret = Some(FALSE)
    /\ ContainsListedMetachar(arg.cmd)
    /\ \E k \in 1..Len(whitelist) :
          /\ EntryWithBoundary(arg.cmd, whitelist[k])
          /\ arg.cmd # whitelist[k]

\* C4: a command without a denylisted character is accepted exactly when it
\* equals an allowlist entry or begins with an entry immediately followed by
\* a space; beginning with the text of an entry (or of a part of one) without
\* that boundary is not enough.
C4_AllowlistBoundary ==
    (pc = "gate_done" /\ ~ContainsListedMetachar(arg.cmd)) =>
        (ret = Some(TRUE) <=>
            \E k \in 1..Len(whitelist) : EntryWithBoundary(arg.cmd, whitelist[k]))

\* a rejected command without metacharacter that begins with the text of an
\* entry but has no space after it
C4_Witness ==
    /\ pc = "gate_done"
    /\ ret = Some(FALSE)
    /\ ~ContainsListedMetachar(arg.cmd)
    /\ \E k \in 1..Len(whitelist) : BeginsWithEntry(arg.cmd, whitelist[k])

(***************************************************************************)
(* Properties of the condition evaluator                                   *)
(***************************************************************************)
\* the optional field of Metrics a variant is bound to
OptionalFieldOf ==
    [SnapLoopsGreater |-> "snap_loops",
     FlatpakUnusedGreater |-> "flatpak_unused",
     BatteryDrainGreater |-> "battery_drain_w",
     WifiChannelCountGreater |-> "wifi_channel_count",
     WifiSignalLess |-> "wifi_signal_dbm",
     FanSpeedGreater |-> "fan_speed_rpm",
     TemperatureGreater |-> "temperature_c",
     FilesystemEquals |-> "filesystem",
     WaylandVsX11 |-> "wayland_vs_x11",
     DockerDanglingGreater |-> "docker_dangling",
     PipewireLatencyGreater |-> "pipewire_latency_ms",
     FirefoxSoftRender |-> "firefox_soft_render",
     ZfsArcPercentGreater |-> "zfs_arc_full_percent",
     LuksDevicesGreater |-> "luks_device_count"]

\* the data the condition is about was not observed
DataAbsent(condition, metrics, logs) ==
    LET kind == condition.kind IN
    CASE kind \in DOMAIN OptionalFieldOf -> ~metrics[OptionalFieldOf[kind]].some
      [] kind = "LogContains" -> ~logs.some
      [] kind = "GpuVendorEquals" -> ~metrics.gpu.some
      [] kind \in {"GpuTempGreater", "GpuTempLess"} ->
            ~metrics.gpu.some \/ ~metrics.gpu.val.temperature.some
      [] kind = "GpuUtilGreater" ->
            ~metrics.gpu.some \/ ~metrics.gpu.val.utilization.some
      [] kind = "GpuMemUtilGreater" ->
            \/ ~metrics.gpu.some
            \/ ~metrics.gpu.val.memory_total_mb.some
            \/ ~metrics.gpu.val.memory_used_mb.some
      [] OTHER -> FALSE

\* C5: condition_holds answers false whenever the optional field, GPU record,
\* GPU sub-field or log text the condition reads is absent, whatever the
\* threshold or target.
C5_AbsentFailsClosed ==
    (pc = "holds_done" /\ DataAbsent(arg.condition, arg.metrics, arg.logs))
        => ret = Some(FALSE)

\* firefox_soft_render=false was evaluated on a snapshot without that field
C5_Witness ==
    /\ pc = "holds_done"
    /\ arg.condition.kind = "FirefoxSoftRender"
    /\ arg.condition.v = FALSE
    /\ ~arg.metrics.firefox_soft_render.some
    /\ ret = Some(FALSE)

\* the field of Metrics a numeric condition on a plain field compares
PlainFieldOf ==
    [CpuGreater |-> "cpu_usage", MemGreater |-> "mem_usage",
     TotalRamLess |-> "total_ram_mb", ProcessCountGreater |-> "process_count",
     DiskFullGreater |-> "disk_full_percent"]

NumericKinds == FloatKinds \cup UnsignedKinds

\* the value a numeric condition compares with its threshold, when there is
\* one; the GPU memory utilization is given for used = 5120 of total = 10240
Observed(condition, metrics) ==
    LET kind == condition.kind IN
    CASE kind \in DOMAIN PlainFieldOf -> Some(metrics[PlainFieldOf[kind]])
      [] kind \in DOMAIN OptionalFieldOf -> metrics[OptionalFieldOf[kind]]
      [] kind \in {"GpuTempGreater", "GpuTempLess"} ->
            IF metrics.gpu.some THEN metrics.gpu.val.temperature ELSE None
      [] kind = "GpuUtilGreater" ->
            IF metrics.gpu.some THEN metrics.gpu.val.utilization ELSE None
      [] kind = "GpuMemUtilGreater" ->
            IF /\ metrics.gpu.some
               /\ metrics.gpu.val.memory_total_mb = Some(F(10240))
               /\ metrics.gpu.val.memory_used_mb = Some(F(5120))
            THEN Some(F(50)) ELSE None

\* C22: the numeric comparisons of condition_holds are strict: a "greater
\* than" condition and a "less than" condition (total_ram<, wifi_signal<,
\* gpu_temp<) are false when the observed value equals the threshold.
C22_ComparisonsStrict ==
    (/\ pc = "holds_done"
     /\ arg.condition.kind \in NumericKinds
     /\ Observed(arg.condition, arg.metrics) = Some(arg.condition.v))
        => ret = Some(FALSE)

\* gpu_temp> was evaluated with the GPU temperature at the threshold
C22_Witness ==
    /\ pc = "holds_done"
    /\ arg.condition.kind = "GpuTempGreater"
    /\ arg.condition.v = F(60)
    /\ Observed(arg.condition, arg.metrics) = Some(F(60))
    /\ ret = Some(FALSE)

\* C24: the GPU memory utilization is defined only when used and total are
\* both present and total is greater than 0.001: with total 0, total below
\* 0.001, or total or used absent, gpu_mem_util> is false whatever its
\* threshold; with total 10240 and used 5120 the utilization is 50, so
\* gpu_mem_util>40 holds and gpu_mem_util>60 does not.
C24_GpuMemUtilDefined ==
    (pc = "holds_done" /\ arg.condition.kind = "GpuMemUtilGreater") =>
        LET total == GpuField(arg.metrics, "memory_total_mb")
            used == GpuField(arg.metrics, "memory_used_mb")
            value == arg.condition.v
        IN
        /\ (~used.some \/ ~total.some \/ total.val <= FP_PRECISION_THRESHOLD)
              => ret = Some(FALSE)
        /\ (used = Some(F(5120)) /\ total = Some(F(10240))) =>
              /\ value = F(40) => ret = Some(TRUE)
              /\ value = F(60) => ret = Some(FALSE)
              /\ ret = Some(value # NaN /\ value < F(50))

\* gpu_mem_util> with a negative threshold was evaluated on a GPU whose
\* total memory is positive and below 0.001
C24_Witness ==
    /\ pc = "holds_done"
    /\ arg.condition.kind = "GpuMemUtilGreater"
    /\ arg.condition.v = F(-60)
    /\ arg.metrics.gpu.some
    /\ arg.metrics.gpu.val.memory_used_mb = Some(F(5120))
    /\ arg.metrics.gpu.val.memory_total_mb = Some(5)
    /\ ret = Some(FALSE)

(***************************************************************************)
(* Properties of the rule engine                                           *)
(***************************************************************************)
\* every condition of compiled rule i holds on the snapshot and log text
Satisfied(i) ==
    \A j \in 1..Len(parsed_rules[i][1]) :
        condition_holds(parsed_rules[i][1][j], arg.metrics, arg.logs)

SatisfiedRules == {i \in 1..Len(parsed_rules) : Satisfied(i)}

\* the Finding carries the Rule's severity, message, solution, auto_fix, name
BuiltFrom(finding, rule) ==
    /\ finding.severity_value = rule.severity
    /\ finding.message = rule.message
    /\ finding.solution = rule.solution
    /\ finding.auto_fix = rule.auto_fix
    /\ finding.rule_name = rule.name

\* C6: evaluate_rules emits exactly one Finding per rule whose conditions all
\* hold and none for the other rules, and each Finding carries the severity,
\* message, solution, auto_fix and name of its rule: the satisfied rules and
\* the Findings correspond one to one.
C6_OneFindingPerSatisfiedRule ==
    pc = "evaluated" =>
        \E f \in [SatisfiedRules -> 1..Len(findings)] :
            /\ \A i, j \in SatisfiedRules : i # j => f[i] # f[j]
            /\ \A k \in 1..Len(findings) : \E i \in SatisfiedRules : f[i] = k
            /\ \A i \in SatisfiedRules : BuiltFrom(findings[f[i]], parsed_rules[i][2])

\* a rule of two conditions fired next to a rule that did not
C6_Witness ==
    /\ pc = "evaluated"
    /\ \E i, j \in 1..Len(parsed_rules) :
          /\ Len(parsed_rules[i][1]) = 2
          /\ Satisfied(i)
          /\ Len(parsed_rules[j][1]) = 2
          /\ ~Satisfied(j)
    /\ Len(findings) = 1

\* the triggers the specification names as compiling to no condition
ZeroConditionTriggers ==
    {T_empty, T_blank, T_cpu60_no_operator, T_cpu_bad_operator}

\* C7: a rule whose trigger compiles to zero conditions (the empty and the
\* blank trigger, "cpu60", "cpu<>60") produces a Finding on every pass,
\* whatever the snapshot and the log text.
C7_ZeroConditionsAlwaysFire ==
    pc = "evaluated" =>
        \A i \in 1..Len(arg.rules) :
            (parsed_rules[i][1] = <<>> \/ arg.rules[i].trigger \in ZeroConditionTriggers)
                => \E k \in 1..Len(findings) : BuiltFrom(findings[k], arg.rules[i])

\* "cpu<>60" fired on the snapshot on which nothing optional was observed
C7_Witness ==
    /\ pc = "evaluated"
    /\ arg.metrics = AbsentMetrics
    /\ arg.logs = None
    /\ Len(arg.rules) = 1
    /\ arg.rules[1].trigger = T_cpu_bad_operator
    /\ Len(findings) = 1

\* the five fields of a Finding that come from its rule
FromRule(rule) ==
    [severity_value |-> rule.severity, message |-> rule.message,
     solution |-> rule.solution, auto_fix |-> rule.auto_fix,
     rule_name |-> rule.name]

Fields(finding) ==
    [severity_value |-> finding.severity_value, message |-> finding.message,
     solution |-> finding.solution, auto_fix |-> finding.auto_fix,
     rule_name |-> finding.rule_name]

\* the satisfied rules of the given severity, in the order of the collection
SatisfiedOfSeverity(sev) ==
    LET indices == SelectSeq([i \in 1..Len(parsed_rules) |-> i],
                             LAMBDA i : Satisfied(i)
                                          /\ parsed_rules[i][2].severity = sev)
    IN [k \in 1..Len(indices) |-> FromRule(parsed_rules[indices[k]][2])]

FindingsOfSeverity(sev) ==
    LET kept == SelectSeq(findings, LAMBDA f : f.severity_value = sev)
    IN [k \in 1..Len(kept) |-> Fields(kept[k])]

\* C8: the list returned by evaluate_rules is in non-increasing order of
\* severity_value, and Findings of equal severity_value are in the order of
\* their rules in the collection given to the engine.
C8_SortedStable ==
    pc = "evaluated" =>
        /\ \A k \in 1..(Len(findings) - 1) :
              findings[k].severity_value >= findings[k + 1].severity_value
        /\ \A sev \in {parsed_rules[i][2].severity : i \in 1..Len(parsed_rules)}
                        \cup {findings[k].severity_value : k \in 1..Len(findings)} :
              FindingsOfSeverity(sev) = SatisfiedOfSeverity(sev)

\* two different Findings of one severity behind a Finding of higher severity
\* whose rule came last in the collection
C8_Witness ==
    /\ pc = "evaluated"
    /\ Len(findings) = 3
    /\ findings[1].severity_value > findings[2].severity_value
    /\ findings[2].severity_value = findings[3].severity_value
    /\ findings[2] # findings[3]
    /\ BuiltFrom(findings[1], arg.rules[3])

FindingsNamed(name) == {k \in 1..Len(findings) : findings[k].rule_name = name}

RulesNamed(name) == {i \in 1..Len(arg.rules) : arg.rules[i].name = name}

\* C21 as claimed: one call of evaluate_rules gives at most one Finding per
\* rule_name, for every accepted rule collection.
C21_OneFindingPerName ==
    pc = "evaluated" =>
        \A k, l \in 1..Len(findings) :
            k # l => findings[k].rule_name # findings[l].rule_name

\* C21 as amended: one call of evaluate_rules gives, for each rule_name, at
\* most as many Findings as the rule collection has rules of that name, and
\* so at most one per rule_name when the names of the collection differ
\* from one another.
C21_AtMostOneFindingPerRule ==
    pc = "evaluated" =>
        /\ \A k \in 1..Len(findings) :
              Cardinality(FindingsNamed(findings[k].rule_name))
                  <= Cardinality(RulesNamed(findings[k].rule_name))
        /\ (\A i, j \in 1..Len(arg.rules) :
                i # j => arg.rules[i].name # arg.rules[j].name)
              => \A k, l \in 1..Len(findings) :
                    k # l => findings[k].rule_name # findings[l].rule_name

\* three rules of three names fired together
C21_Witness ==
    /\ pc = "evaluated"
    /\ Len(findings) = 3
    /\ \A k, l \in 1..3 : k # l => findings[k].rule_name # findings[l].rule_name

\* the satisfied rules of the name
FiredNamed(name) == {i \in SatisfiedRules : arg.rules[i].name = name}

\* among the satisfied rules of the name, the first of the highest severity
BestNamed(name) ==
    CHOOSE i \in FiredNamed(name) :
        \A j \in FiredNamed(name) :
            \/ arg.rules[j].severity < arg.rules[i].severity
            \/ arg.rules[j].severity = arg.rules[i].severity /\ i <= j

\* C25: after evaluate_rules and then correlate_findings, when several rules
\* of one name fired in the pass, the one Finding of that name that is left
\* is that of the rule of the highest severity among them and, among those
\* of equal highest severity, of the one that comes first in the rule source.
C25_HighestSeverityFirstInSource ==
    pc = "correlated" =>
        \A i \in SatisfiedRules :
            LET name == arg.rules[i].name IN
            /\ Cardinality(FindingsNamed(name)) = 1
            /\ \A k \in FindingsNamed(name) :
                  Fields(findings[k]) = FromRule(arg.rules[BestNamed(name)])

\* three rules of one name fired, the first two of the highest severity and
\* with different messages, and the Finding of the first is the one left
C25_Witness ==
    /\ pc = "correlated"
    /\ Len(arg.rules) = 3
    /\ SatisfiedRules = {1, 2, 3}
    /\ \A i \in 2..3 : arg.rules[i].name = arg.rules[1].name
    /\ arg.rules[1].severity = arg.rules[2].severity
    /\ arg.rules[1].message # arg.rules[2].message
    /\ arg.rules[3].severity < arg.rules[1].severity
    /\ Len(findings) = 1
    /\ Fields(findings[1]) = FromRule(arg.rules[1])

(***************************************************************************)
(* Properties of the correlator                                            *)
(***************************************************************************)
\* position of the first Finding of the name in the input list
FirstOfName(name) ==
    CHOOSE i \in 1..Len(arg.findings) :
        /\ arg.findings[i].rule_name = name
        /\ \A j \in 1..(i - 1) : arg.findings[j].rule_name # name

\* C9: after correlate_findings no two Findings share a rule_name, and for
\* each rule_name of the input the Finding that survives is the one that came
\* first in the input.
C9_FirstSeenWins ==
    pc = "correlated" =>
        /\ \A k, l \in 1..Len(findings) :
              k # l => findings[k].rule_name # findings[l].rule_name
        /\ \A i \in 1..Len(arg.findings) :
              \E k \in 1..Len(findings) :
                  findings[k] = arg.findings[FirstOfName(arg.findings[i].rule_name)]

\* the input held two different Findings of one name, the later one of higher
\* severity, and the earlier one is in the output
C9_Witness ==
    /\ pc = "correlated"
    /\ \E i, j \in 1..Len(arg.findings) :
          /\ i < j
          /\ arg.findings[i].rule_name = arg.findings[j].rule_name
          /\ arg.findings[i].severity_value < arg.findings[j].severity_value
          /\ FirstOfName(arg.findings[i].rule_name) = i
          /\ \E k \in 1..Len(findings) : findings[k] = arg.findings[i]

\* C10: correlate_findings is idempotent: a second application leaves the
\* list as the first one made it, records and order.
C10_Idempotent == [][pc = "correlated" => findings' = findings]_vars

\* the second application has run on the result of an input that had a
\* repeated name and was not sorted by severity
C10_Witness ==
    /\ pc = "correlated_again"
    /\ \E i, j \in 1..Len(arg.findings) :
          i < j /\ arg.findings[i].rule_name = arg.findings[j].rule_name
    /\ \E i \in 1..(Len(arg.findings) - 1) :
          arg.findings[i].severity_value < arg.findings[i + 1].severity_value
    /\ findings # arg.findings

\* the place in the input of the record at place k of the output
Origin(k) ==
    CHOOSE i \in 1..Len(arg.findings) :
        /\ arg.findings[i] = findings[k]
        /\ \A j \in 1..(i - 1) : arg.findings[j] # findings[k]

\* C11: correlate_findings only removes and reorders: each record of the
\* output is a record of the input with its six fields as they were, no two
\* places of the output hold the same input record, severity_value does not
\* increase along the output, and records of equal severity_value stand in
\* the order they had in the input.
C11_OnlyFiltersAndReorders ==
    pc = "correlated" =>
        /\ \A k \in 1..Len(findings) :
              \E i \in 1..Len(arg.findings) : arg.findings[i] = findings[k]
        /\ Len(findings) <= Len(arg.findings)
        /\ \A k, l \in 1..Len(findings) :
              k < l =>
                  /\ findings[k] # findings[l]
                  /\ findings[k].severity_value >= findings[l].severity_value
                  /\ findings[k].severity_value = findings[l].severity_value
                        => Origin(k) < Origin(l)

\* an input out of order with a repeated name, whose output is shorter and
\* holds two records of one severity_value
C11_Witness ==
    /\ pc = "correlated"
    /\ Len(findings) < Len(arg.findings)
    /\ \E k \in 1..(Len(findings) - 1) :
          findings[k].severity_value = findings[k + 1].severity_value
    /\ \E i \in 1..(Len(arg.findings) - 1) :
          arg.findings[i].severity_value < arg.findings[i + 1].severity_value

=============================================================================
